---- MODULE Spec2Model ----
(***************************************************************************)
(* A model of rsf.js: the State cell, the element builder with its        *)
(* insertion cursor, the data-rsf-watching registry kept on DOM nodes and *)
(* the rebuild performed by State.notifyElements.                          *)
(*                                                                         *)
(* The library is synchronous and re-entrant: set calls notifyElements,   *)
(* which calls stored content functions, which call elem, which calls     *)
(* content functions, which may call set again.  The model keeps the      *)
(* JavaScript call stack explicitly (variable stack) and every action is  *)
(* one step of the frame on top of it.  The application code (the builder *)
(* and content functions handed to the library, and the external code     *)
(* calling set) is the input: a small table of applications, one of which *)
(* is chosen in Init.                                                      *)
(***************************************************************************)
EXTENDS Integers, Sequences, FiniteSets, TLC

VARIABLES
    app,             \* the application under execution (input)
    phase,           \* number of rsf(...) calls the application has made
    nodes,           \* the DOM heap: node id -> node record
    cells,           \* the State objects: _value, _stateId
    heap,            \* props objects the application keeps and passes again
    stateIdCounter,  \* per rsf instance: let stateIdCounter
    relem,           \* per rsf instance: r._element
    rcur,            \* per rsf instance: r._currentElement
    rstack,          \* per rsf instance: r._stack
    tcur,            \* _currentElement of the live tempR handles
    stack,           \* the JavaScript call stack
    call,            \* observation: the external call in progress / last made
    prev,            \* observation: the external call made before that one
    snap,            \* observation: the DOM when that external call started
    log,             \* observation: rebuilds and sets of that external call
    nsets,           \* observation: number of external set calls made
    hist,            \* observation: each external call: the one before it and the state it found
    console,         \* the lines written to the console
    sin,             \* createStatic: the builder handed to it (input)
    shtml,           \* createStatic: let html
    sstack,          \* createStatic: the call stack of the builder
    sout             \* createStatic: the strings returned so far

vars == <<app, phase, nodes, cells, heap, stateIdCounter, relem, rcur, rstack,
          tcur, stack, call, prev, snap, log, nsets, hist, console,
          sin, shtml, sstack, sout>>

\* the state of rsf and of the document / the state of createStatic
domVars == <<app, phase, nodes, cells, heap, stateIdCounter, relem, rcur, rstack,
             tcur, stack, call, prev, snap, log, nsets, hist, console>>
staticVars == <<sin, shtml, sstack, sout>>

(***************************************************************************)
(* Bounds.                                                                 *)
(***************************************************************************)
MaxSets == 2
MaxVal == 2
MaxToggles == 3
\* the number of frames the call stack of the engine holds
MaxDepth == 8
\* createStatic: the length of the texts handed to the builder, and the
\* number of calls made with one builder
MaxLen == 2
MaxCalls == 2

Values == 0..MaxVal
Insts == {1, 2}
Cells == {1, 2, 3, 4, 5}

(***************************************************************************)
(* JavaScript values that reach the library through props.                 *)
(***************************************************************************)
Digit == <<"0", "1", "2", "3", "4", "5", "6", "7", "8", "9">>

RECURSIVE ToStr(_)
\* String(n) for a non-negative integer n
ToStr(n) ==
    IF n < 10 THEN Digit[n + 1] ELSE ToStr(n \div 10) \o Digit[(n % 10) + 1]

Str(s) == [t |-> "string", s |-> s, b |-> FALSE, c |-> 0]
Bool(b) == [t |-> "boolean", s |-> "", b |-> b, c |-> 0]
Num(n) == [t |-> "number", s |-> ToStr(n), b |-> FALSE, c |-> 0]
\* the expression cell.get() written as a props value
FromCell(c) == [t |-> "cell", s |-> "", b |-> FALSE, c |-> c]

\* String(value) of a props value: template literals and setAttribute coerce
JsString(v) ==
    IF v.t = "boolean" THEN (IF v.b THEN "true" ELSE "false") ELSE v.s

(***************************************************************************)
(* The application: instructions of builder and content functions.         *)
(*   watch:   [k: "none" | "cell" | "array", cells]   the props.watch value *)
(*   content: [k: "fn" | "str" | "num" | "none", fn, s, cell] the content   *)
(*            argument; a "str" content is the literal s followed, when     *)
(*            cell # 0, by the string form of that cell's value (a template *)
(*            literal); a "num" content carries its string form in s        *)
(*   pobj:    0 for a props literal written at the call, else the index in  *)
(*            heap of a props object the application built once             *)
(***************************************************************************)
NoWatch == [k |-> "none", cells |-> <<>>]
WCell(c) == [k |-> "cell", cells |-> <<c>>]
WArr(cs) == [k |-> "array", cells |-> cs]

CFn(f) == [k |-> "fn", fn |-> f, s |-> "", cell |-> 0]
CStr(s, c) == [k |-> "str", fn |-> "", s |-> s, cell |-> c]
CNone == [k |-> "none", fn |-> "", s |-> "", cell |-> 0]
\* a number: the literal n, or, when cell # 0, the value of that State
CNum(n, c) == [k |-> "num", fn |-> "", s |-> ToStr(n), cell |-> c]

KV(key, val) == [key |-> key, val |-> val]
Props(w, attrs) == [watch |-> w, attrs |-> attrs]

IElem(tag, pobj, props, content) ==
    [op |-> "elem", tag |-> tag, pobj |-> pobj, props |-> props,
     content |-> content, cell |-> 0, src |-> 0, add |-> 0, force |-> FALSE]
IText(s, c) ==
    [op |-> "text", tag |-> "", pobj |-> 0, props |-> Props(NoWatch, <<>>),
     content |-> CStr(s, c), cell |-> 0, src |-> 0, add |-> 0, force |-> FALSE]
\* cell.set(src.get() + add, force); src = 0 stands for the constant add
ISet(c, src, add, force) ==
    [op |-> "set", tag |-> "", pobj |-> 0, props |-> Props(NoWatch, <<>>),
     content |-> CNone, cell |-> c, src |-> src, add |-> add, force |-> force]

\* if (cell.get() === v) throw new Error(...)
IThrowIf(c, v) ==
    [op |-> "throw", tag |-> "", pobj |-> 0, props |-> Props(NoWatch, <<>>),
     content |-> CNone, cell |-> c, src |-> 0, add |-> v, force |-> FALSE]

\* r[tag](arg): a tag shorthand called with one argument
ITag(tag, arg) ==
    [op |-> "tag", tag |-> tag, pobj |-> 0, props |-> Props(NoWatch, <<>>),
     content |-> arg, cell |-> 0, src |-> 0, add |-> 0, force |-> FALSE]

\* state = renderReactive(r, initial, child, options): cell is the State the
\* call creates, pobj the options object (0: none given)
IReactive(c, pobj, child) ==
    [op |-> "reactive", tag |-> "", pobj |-> pobj, props |-> Props(NoWatch, <<>>),
     content |-> CFn(child), cell |-> c, src |-> 0, add |-> 0, force |-> FALSE]

Apps == {"counter", "nested", "tabs", "chain", "shared", "reactive", "form",
         "short", "cycle", "shapes", "faulty", "custom"}

\* The rsf(anchor, child) calls the application makes, in order.
Mount(anchor, child, inst) == [anchor |-> anchor, child |-> child, inst |-> inst]
Mounts(a) ==
    CASE a = "counter" -> << Mount("#app", "main", 1), Mount("#missing", "main", 2) >>
      [] a = "reactive" -> << Mount("#app", "main", 1), Mount("#app2", "main2", 2) >>
      [] a = "static" -> << >>
      [] OTHER -> << Mount("#app", "main", 1) >>

\* options.addTags of the rsf calls the application makes: the tag names it
\* asks a shorthand for, besides the standard ones
AddTags(a) == IF a = "custom" THEN {"widget", "text"} ELSE {}

\* The State objects the application creates, and the rsf instance whose
\* State class each was created from.
AppCells(a) ==
    CASE a \in {"nested", "chain", "faulty"} -> {1, 2}
      [] a = "reactive" -> {1, 2, 3}
      [] a = "static" -> {}
      [] OTHER -> {1}
CellInst(a, c) == IF a = "reactive" /\ c \in {4, 5} THEN 2 ELSE 1
\* options.compare of each State: the default (a, b) => a === b, a custom
\* comparator treating values of equal parity as equal, or a malformed one
\* that throws when it is handed the value 2.
CellCompare(a, c) ==
    CASE a = "nested" /\ c = 2 -> "parity"
      [] a = "faulty" /\ c = 2 -> "picky"
      [] OTHER -> "identity"
\* the type of the values the application stores in each State, the
\* values external code sets, the initial value, and the number of set
\* calls external code makes
CellType(a, c) == IF a = "form" THEN "boolean" ELSE "number"
AppValues(a) == IF a = "form" THEN BOOLEAN ELSE Values
CellInit(a, c) == IF a = "form" THEN FALSE ELSE 0
SetBudget(a) == IF a = "form" THEN MaxToggles ELSE MaxSets
\* the updater functions external code passes to update: v => (v + 1) % N
\* with N the number of values, v => v, and v => !v
AppUpdaters(a) ==
    CASE a = "counter" -> {"inc", "same"}
      [] a = "form" -> {"not"}
      [] OTHER -> {}
ApplyFn(fn, v) ==
    CASE fn = "not" -> ~v
      [] fn = "same" -> v
      [] OTHER -> (v + 1) % (MaxVal + 1)
\* options.debug of each State
CellDebug(a, c) == a = "counter" /\ c = 1

\* Props objects the application creates once and passes to several calls.
HeapInit(a) ==
    << Props(WArr(<<1>>), <<KV("class", Str("card"))>>),
       Props(WCell(1), <<KV("dataMark", Str("row"))>>),
       Props(WArr(<<3>>), <<KV("tag", Str("section")), KV("class", Str("rx"))>>),
       Props(WCell(4), <<>>) >>

Body(a, f) ==
    CASE a = "counter" ->
           (CASE f = "main" ->
                   << IElem("section", 0, Props(NoWatch, <<>>), CFn("l1")),
                      IElem("p", 0, Props(NoWatch, <<>>), CStr("end", 0)) >>
              [] f = "l1" ->
                   << IElem("div", 0, Props(WCell(1), <<KV("class", Str("box"))>>), CFn("count")),
                      IText("s1", 0) >>
              [] f = "count" ->
                   << IText("Count: ", 1),
                      IElem("ul", 0, Props(NoWatch, <<>>), CFn("l3")),
                      IText("s2", 0) >>
              [] f = "l3" ->
                   << IElem("li", 0, Props(NoWatch, <<>>), CFn("l4")),
                      IText("s3", 0) >>
              [] f = "l4" ->
                   << IElem("b", 0, Props(NoWatch, <<>>), CFn("l5")),
                      IText("s4", 0) >>
              [] OTHER -> << IText("leaf", 0) >>)
      [] a = "nested" ->
           (CASE f = "main" ->
                   << IElem("div", 0, Props(WArr(<<1>>), <<KV("class", Str("outer"))>>), CFn("outer")),
                      IElem("p", 0, Props(WArr(<<2>>), <<>>), CFn("mark2")) >>
              [] f = "outer" ->
                   << IText("o", 1),
                      IElem("span", 0, Props(WArr(<<1, 2>>), <<>>), CFn("inner")),
                      IElem("em", 0, Props(WArr(<<2>>), <<>>), CFn("mark")) >>
              [] f = "inner" -> << IText("i", 1) >>
              [] f = "mark2" ->
                   << IText("marker", 0),
                      IElem("i", 0, Props(WCell(1), <<>>), CFn("inner")) >>
              [] OTHER -> << IText("marker", 0) >>)
      [] a = "tabs" ->
           (CASE f = "main" ->
                   << IElem("div", 0, Props(NoWatch, <<KV("class", Str("tabs"))>>), CFn("tabsBody")) >>
              [] f = "tabsBody" ->
                   << IElem("h2", 0, Props(WArr(<<1>>), <<>>), CFn("panel")),
                      IElem("button", 0, Props(WArr(<<1>>), <<KV("class", Str("active"))>>), CStr("Home", 0)),
                      IElem("div", 0, Props(WArr(<<1>>), <<KV("class", Str("tab-content"))>>), CFn("panel")) >>
              [] OTHER ->
                   << IElem("p", 0, Props(NoWatch, <<>>), CStr("tab", 1)) >>)
      [] a = "chain" ->
           (CASE f = "main" ->
                   << IElem("div", 0, Props(WArr(<<1>>), <<>>), CFn("a")),
                      IElem("div", 0, Props(WArr(<<2, 1>>), <<>>), CFn("b")) >>
              [] f = "a" ->
                   << IText("a", 1),
                      ISet(2, 1, 0, FALSE),
                      ISet(2, 0, 0, TRUE),
                      IText("z", 2) >>
              [] f = "b" ->
                   << IText("b", 2),
                      IElem("i", 0, Props(NoWatch, <<>>), CFn("tail")) >>
              [] OTHER -> << IText("t", 0) >>)
      [] a = "form" ->
           (CASE f = "main" ->
                   << IElem("div", 0, Props(WArr(<<1>>), <<KV("class", Str("form"))>>), CFn("fields")),
                      IElem("input", 0, Props(NoWatch, <<KV("type", Str("checkbox")),
                                                         KV("checked", Bool(TRUE))>>), CNone),
                      IElem("input", 0, Props(NoWatch, <<KV("type", Str("checkbox")),
                                                         KV("checked", Bool(FALSE))>>), CNone),
                      IElem("button", 0, Props(NoWatch, <<KV("disabled", Str("false")),
                                                          KV("class", Str("go"))>>), CStr("Go", 0)) >>
              [] OTHER ->
                   << IElem("input", 0, Props(NoWatch, <<KV("type", Str("checkbox")),
                                                         KV("checked", FromCell(1))>>), CNone),
                      IElem("select", 0, Props(NoWatch, <<KV("multiple", Num(1))>>), CNone) >>)
      [] a = "cycle" ->
           (CASE f = "main" ->
                   << IElem("div", 0, Props(WArr(<<1>>), <<>>), CFn("spin")) >>
              [] OTHER ->
                   << IText("v", 1),
                      ISet(1, 1, 1, FALSE) >>)
      [] a = "short" ->
           (CASE f = "main" ->
                   << ITag("h1", CStr("Title", 0)),
                      ITag("span", CNum(5, 0)),
                      ITag("b", CNum(0, 0)),
                      IElem("div", 0, Props(WArr(<<1>>), <<>>), CFn("board")) >>
              [] f = "board" ->
                   << ITag("ul", CFn("items")),
                      ITag("em", CNum(0, 1)),
                      IElem("i", 0, Props(NoWatch, <<>>), CNum(0, 1)) >>
              [] OTHER ->
                   << ITag("li", CStr("n", 1)),
                      ITag("text", CStr("t", 0)) >>)
      [] a = "faulty" ->
           (CASE f = "main" ->
                   << IElem("div", 0, Props(WArr(<<1>>), <<>>), CFn("late")),
                      IElem("div", 0, Props(WArr(<<1>>), <<>>), CFn("early")),
                      IElem("span", 0, Props(WArr(<<2>>), <<>>), CFn("pick")),
                      IElem("p", 0, Props(NoWatch, <<>>), CStr("end", 0)) >>
              [] f = "pick" -> << IText("p", 2) >>
              [] f = "late" ->
                   << IText("a", 1),
                      IElem("b", 0, Props(NoWatch, <<>>), CFn("deep")),
                      IText("z", 0) >>
              [] f = "deep" ->
                   << IText("d", 0),
                      IThrowIf(1, 2),
                      IText("e", 0) >>
              [] OTHER ->
                   << IThrowIf(1, 1),
                      IText("b", 1) >>)
      [] a = "shapes" ->
           (CASE f = "main" ->
                   << IElem("div", 0, Props(WCell(1), <<>>), CFn("leaf")),
                      IElem("div", 0, Props(WArr(<<>>), <<>>), CFn("leaf")),
                      IElem("p", 0, Props(WArr(<<>>), <<>>), CStr("lit", 0)),
                      IElem("span", 0, Props(WArr(<<>>), <<>>), CNone),
                      IElem("em", 0, Props(NoWatch, <<>>), CFn("leaf")),
                      IElem("b", 0, Props(NoWatch, <<>>), CStr("lit", 0)),
                      IElem("br", 0, Props(NoWatch, <<>>), CNone),
                      IElem("hr", 0, Props(WArr(<<1>>), <<>>), CNone),
                      IElem("i", 0, Props(WCell(1), <<>>), CStr("lit", 0)) >>
              [] OTHER -> << IText("leaf", 0) >>)
      [] a = "reactive" ->
           (CASE f = "main" ->
                   << IReactive(1, 3, "rx1"),
                      IReactive(2, 3, "rx2") >>
              [] f = "main2" ->
                   << IReactive(4, 0, "rx4"),
                      IReactive(5, 4, "rx5") >>
              [] f = "rx1" -> << IText("n", 1) >>
              [] f = "rx2" -> << IText("m", 2) >>
              [] f = "rx4" -> << IText("k", 4) >>
              [] OTHER -> << IText("y", 5) >>)
      [] a = "custom" ->
           (CASE f = "main" ->
                   << ITag("widget", CStr("w", 0)),
                      IText("label", 0),
                      IElem("div", 0, Props(WArr(<<1>>), <<>>), CFn("val")) >>
              [] OTHER -> << IText("v", 1) >>)
      [] OTHER ->
           (CASE f = "main" ->
                   << IElem("div", 1, Props(NoWatch, <<>>), CFn("x")),
                      IElem("div", 1, Props(NoWatch, <<>>), CFn("x")),
                      IElem("ul", 0, Props(WArr(<<1>>), <<>>), CFn("rows")) >>
              [] f = "rows" ->
                   << IElem("li", 2, Props(NoWatch, <<>>), CFn("x")) >>
              [] OTHER -> << IText("x", 1) >>)

(***************************************************************************)
(* The DOM.  Node 1 is the document body, node 2 the element #app, node 3  *)
(* the element #app2, node 4 a text node the page holds inside #app before *)
(* the library runs.  parent = 0 is a null parentNode.  The field decl is  *)
(* an observation: the State objects named by props.watch when the element *)
(* was created; so is by: the element whose builder or content function   *)
(* was running when the library created the node (0: not created by the    *)
(* library).  More observations on an element: kvs, the props it was       *)
(* created from, and raw, those props as the application wrote them; for   *)
(* the container of a renderReactive call rstate, the State the call       *)
(* created and returned, and given, the States options.watch held when the *)
(* call was made; short, the one-argument tag shorthand call that created  *)
(* the node; pass, the notification pass in progress when the element was  *)
(* created (the position in log of its set, 0: none); pobj, the props      *)
(* object of the application the element was created from (0: a literal). *)
(***************************************************************************)
BodyNode == 1

\* observation on a node: the tag shorthand called with one argument that
\* created it, and that argument
Short(tag, arg) == [tag |-> tag, arg |-> arg]
NoShort == Short("", CNone)

Node(kind, tag, parent, kids, text) ==
    [kind |-> kind, tag |-> tag, parent |-> parent, kids |-> kids,
     hasWatch |-> FALSE, watching |-> <<>>, render |-> CNone,
     text |-> text, attrs |-> {}, decl |-> {}, by |-> 0,
     rstate |-> 0, given |-> {}, kvs |-> <<>>, raw |-> <<>>, short |-> NoShort,
     pass |-> 0, pobj |-> 0]

InitNodes ==
    << Node("elem", "body", 0, <<2, 3>>, ""),
       Node("elem", "div", 1, <<4>>, ""),
       Node("elem", "div", 1, <<>>, ""),
       Node("text", "", 2, <<>>, "loading") >>

\* document.querySelector(anchor): the node, or 0 for null
QuerySelector(anchor) ==
    CASE anchor = "#app" -> 2
      [] anchor = "#app2" -> 3
      [] OTHER -> 0

RECURSIVE IsAttached(_, _)
\* n is in the document: the body is among its inclusive ancestors
IsAttached(ns, n) ==
    IF n = BodyNode THEN TRUE
    ELSE IF n = 0 \/ ns[n].parent = 0 THEN FALSE
    ELSE IsAttached(ns, ns[n].parent)

RECURSIVE Preorder(_, _)
RECURSIVE PreorderAll(_, _)
\* n followed by its descendants, in document order
Preorder(ns, n) == <<n>> \o PreorderAll(ns, ns[n].kids)
PreorderAll(ns, ks) ==
    IF ks = <<>> THEN <<>>
    ELSE Preorder(ns, Head(ks)) \o PreorderAll(ns, Tail(ks))

IsWatching(ns, n) == ns[n].kind = "elem" /\ ns[n].hasWatch

\* document.querySelectorAll('[data-rsf-watching]'): a static list, in
\* document order, of the elements of the document bearing the attribute
QuerySelectorAll(ns) ==
    SelectSeq(Tail(Preorder(ns, BodyNode)), LAMBDA n : IsWatching(ns, n))

\* element.innerHTML = '': every child is removed from e
ClearChildren(ns, e) ==
    [n \in DOMAIN ns |->
        IF n = e THEN [ns[n] EXCEPT !.kids = <<>>]
        ELSE IF ns[n].parent = e THEN [ns[n] EXCEPT !.parent = 0]
        ELSE ns[n]]

\* innerHTML = '' forgotten: the children stay
KeepChildren(ns, e) == ns

\* the element replaced instead of emptied: e leaves its parent as well
ReplaceElement(ns, e) ==
    [n \in DOMAIN ns |->
        IF n = e THEN [ns[n] EXCEPT !.kids = <<>>, !.parent = 0]
        ELSE IF ns[n].parent = e THEN [ns[n] EXCEPT !.parent = 0]
        ELSE IF n = ns[e].parent
             THEN [ns[n] EXCEPT !.kids = SelectSeq(@, LAMBDA k : k # e)]
        ELSE ns[n]]

\* notifyElements empties the watching element before the rebuild
EmptyElement(ns, e) == ClearChildren(ns, e)

\* parent.appendChild(a node just created): the new node gets the next id
AppendChild(ns, p, rec) ==
    Append([ns EXCEPT ![p].kids = Append(@, Len(ns) + 1)],
           [rec EXCEPT !.parent = p])

\* element.textContent = s on an element without children
SetTextContent(ns, e, s) ==
    IF s = "" THEN ns ELSE AppendChild(ns, e, Node("text", "", 0, <<>>, s))

RECURSIVE TextOf(_, _)
RECURSIVE TextOfAll(_, _)
\* node.textContent
TextOf(ns, n) ==
    IF ns[n].kind = "text" THEN ns[n].text ELSE TextOfAll(ns, ns[n].kids)
TextOfAll(ns, ks) ==
    IF ks = <<>> THEN "" ELSE TextOf(ns, Head(ks)) \o TextOfAll(ns, Tail(ks))

(***************************************************************************)
(* The data-rsf-watching attribute.  A string is a sequence of tokens: a   *)
(* state id "state-N" is one token, the separator "," another.             *)
(***************************************************************************)
Undefined == "undefined"
Comma == ","

\* `state-${stateIdCounter++}`
StateIdOf(n) == "state-" \o ToStr(n)

RECURSIVE Join(_)
\* ids.join(',')
Join(ids) ==
    IF ids = <<>> THEN <<>>
    ELSE IF Len(ids) = 1 THEN <<ids[1]>>
    ELSE <<ids[1], Comma>> \o Join(Tail(ids))

RECURSIVE SplitFrom(_, _)
\* the pieces of s after a piece cur that is still open
SplitFrom(s, cur) ==
    IF s = <<>> THEN <<cur>>
    ELSE IF Head(s) = Comma THEN <<cur>> \o SplitFrom(Tail(s), <<>>)
    ELSE SplitFrom(Tail(s), Append(cur, Head(s)))

\* attr.split(','): the pieces, each a string (the empty string gives one
\* empty piece)
Split(s) == SplitFrom(s, <<>>)

\* the membership test dropped: every marked element counts as watching
IncludesAny(watching, id) == id # Undefined

\* watching.includes(stateId): an undefined _stateId equals no string
Includes(watching, id) ==
    id # Undefined /\ \E i \in 1..Len(watching) : watching[i] = <<id>>

(***************************************************************************)
(* State: the comparator and the change gate of set.                       *)
(***************************************************************************)
\* this._compare(a, b)
Compare(cmp, a, b) ==
    IF cmp = "parity" THEN (a % 2) = (b % 2) ELSE a = b

\* the call this._compare(a, b) throws
CompareThrows(cmp, a, b) == cmp = "picky" /\ b = 2

\* force tested first, force || !compare(...): a forced set calls no comparator
ForceFirst(force) == ~force

\* set calls the comparator: it is the left operand of ||, whatever force is
CompareCalled(force) == TRUE

\* the condition of State.set: !this._compare(this._value, newValue) || force
ShouldNotify(cmp, cur, new, force) == (~Compare(cmp, cur, new)) \/ force

(***************************************************************************)
(* r.elem: watch registration and attribute rules.                         *)
(***************************************************************************)
booleanAttributes ==
    {"checked", "disabled", "required", "readonly", "selected", "multiple",
     "hidden", "open", "novalidate", "autoplay", "controls", "default",
     "reversed", "async", "defer"}

events ==
    {"click", "dblclick", "mousedown", "mouseup", "mouseover", "mouseout",
     "mousemove", "keydown", "keyup", "keypress", "focus", "blur", "change",
     "submit", "input", "touchstart", "touchend", "touchmove", "drag",
     "dragstart", "dragend", "dragover", "dragenter", "dragleave", "drop"}

\* camelToKebab on the property keys the applications use
camelToKebab(key) ==
    CASE key = "dataMark" -> "data-mark"
      [] key = "ariaLabel" -> "aria-label"
      [] key = "fontSize" -> "font-size"
      [] OTHER -> key

\* if (props.watch): a State object and an array, also an empty one, are truthy
WatchGiven(w) == w.k # "none"

\* Array.isArray(props.watch) ? props.watch : [props.watch]
WatchArray(w) == w.cells

RECURSIVE AssignIdsAlways(_, _, _)
RECURSIVE AssignIds(_, _, _)
\* the test of _stateId dropped: every registration gives the state a new id
AssignIdsAlways(cs, counter, arr) ==
    IF arr = <<>> THEN [cells |-> cs, counter |-> counter]
    ELSE AssignIdsAlways([cs EXCEPT ![Head(arr)].stateId = StateIdOf(counter)],
                         counter + 1, Tail(arr))

\* watchArray.forEach: a state without _stateId gets `state-${stateIdCounter++}`
AssignIds(cs, counter, arr) ==
    IF arr = <<>> THEN [cells |-> cs, counter |-> counter]
    ELSE IF cs[Head(arr)].stateId = Undefined
    THEN AssignIds([cs EXCEPT ![Head(arr)].stateId = StateIdOf(counter)],
                   counter + 1, Tail(arr))
    ELSE AssignIds(cs, counter, Tail(arr))

\* watchArray.map(s => s._stateId).join(',')
WatchAttr(cs, arr) == Join([i \in 1..Len(arr) |-> cs[arr[i]].stateId])

Attr(kind, name, value) == [kind |-> kind, name |-> name, value |-> value]

\* element.setAttribute(name, value) / element.removeAttribute(name)
SetAttribute(attrs, name, value) ==
    {a \in attrs : ~(a.kind = "attr" /\ a.name = name)} \cup {Attr("attr", name, value)}
RemoveAttribute(attrs, name) ==
    {a \in attrs : ~(a.kind = "attr" /\ a.name = name)}

\* the test of the value dropped: a whitelisted key always sets the attribute
BooleanAttrAlways(attrs, attr, value) == SetAttribute(attrs, attr, "")

\* a value that is neither true nor false handed on to the generic rule
BooleanAttrGeneric(attrs, attr, value) ==
    IF value.t = "boolean" /\ value.b THEN SetAttribute(attrs, attr, "")
    ELSE IF value.t = "boolean" /\ ~value.b THEN RemoveAttribute(attrs, attr)
    ELSE SetAttribute(attrs, attr, JsString(value))

\* the branch of a boolean-whitelisted key: value === true, value === false,
\* and no else
BooleanAttr(attrs, attr, value) ==
    IF value.t = "boolean" /\ value.b THEN SetAttribute(attrs, attr, "")
    ELSE IF value.t = "boolean" /\ ~value.b THEN RemoveAttribute(attrs, attr)
    ELSE attrs

\* one entry of Object.entries(props) applied to the attributes so far
ApplyProp(attrs, key, value) ==
    LET attr == camelToKebab(key)
    IN  IF key = "class" THEN SetAttribute(attrs, "class", JsString(value))
        ELSE IF key = "style" THEN SetAttribute(attrs, "style", JsString(value))
        ELSE IF attr \in events THEN attrs \cup {Attr("listener", attr, "")}
        ELSE IF attr \in booleanAttributes THEN BooleanAttr(attrs, attr, value)
        ELSE SetAttribute(attrs, attr, JsString(value))

RECURSIVE ApplyProps(_, _)
\* Object.entries(props).forEach, in insertion order
ApplyProps(attrs, kvs) ==
    IF kvs = <<>> THEN attrs
    ELSE ApplyProps(ApplyProp(attrs, Head(kvs).key, Head(kvs).val), Tail(kvs))

\* props values as evaluated by the caller before the call: a value bound
\* to a State is that State's value
EvalValue(v, cs) ==
    IF v.t # "cell" THEN v
    ELSE IF CellType(app, v.c) = "boolean" THEN Bool(cs[v.c].value)
    ELSE Num(cs[v.c].value)
EvalProps(props, cs) ==
    [props EXCEPT !.attrs = [i \in 1..Len(@) |->
                                KV(@[i].key, EvalValue(@[i].val, cs))]]

\* the content argument as evaluated by the caller before the call
EvalContent(content, cs) ==
    IF content.k = "str" /\ content.cell # 0
    THEN CStr(content.s \o ToStr(cs[content.cell].value), 0)
    ELSE IF content.k = "num" /\ content.cell # 0
    THEN CNum(cs[content.cell].value, 0)
    ELSE content

\* if (renderFn): a function, a non-empty string and a number other than 0
\* are truthy
Truthy(content) ==
    \/ content.k = "fn"
    \/ (content.k = "str" /\ content.s # "")
    \/ (content.k = "num" /\ content.s # "0")

\* html: true among the props
HtmlGiven(kvs) ==
    \E i \in 1..Len(kvs) :
        kvs[i].key = "html" /\ kvs[i].val.t = "boolean" /\ kvs[i].val.b

\* r.elem up to the call of the content function: the element with its
\* watch marker, stored content and attributes, appended to cur, and its
\* text when the content is a literal
ElemCreate(ns, cs, counter, cur, tag, props, content) ==
    LET given == WatchGiven(props.watch)
        arr == WatchArray(props.watch)
        ids == IF given THEN AssignIds(cs, counter, arr)
                        ELSE [cells |-> cs, counter |-> counter]
        rec == [Node("elem", tag, 0, <<>>, "") EXCEPT
                   !.hasWatch = given,
                   !.watching = IF given THEN WatchAttr(ids.cells, arr) ELSE <<>>,
                   !.render = IF given THEN content ELSE CNone,
                   !.decl = IF given THEN {arr[i] : i \in 1..Len(arr)} ELSE {},
                   !.attrs = ApplyProps({}, props.attrs)]
        el == Len(ns) + 1
        ns1 == AppendChild(ns, cur, rec)
        ns2 == IF content.k \in {"str", "num"}
               THEN IF HtmlGiven(props.attrs)
                    THEN (IF content.s = "" THEN ns1
                          ELSE AppendChild(ns1, el, Node("markup", "", 0, <<>>, content.s)))
                    ELSE SetTextContent(ns1, el, content.s)
               ELSE ns1
    IN  [nodes |-> ns2, cells |-> ids.cells, counter |-> ids.counter, el |-> el]

(***************************************************************************)
(* The call stack.  A frame is either a builder / content function at     *)
(* instruction pc, running on handle h (0: the root handle r of instance  *)
(* inst, k > 0: the tempR whose _currentElement is tcur[k]), or the       *)
(* forEach of notifyElements at position i of its static list.            *)
(*   ret: what called the function: "render" (r.render), "elem" (r.elem,  *)
(*        which restores the cursor when the function returns) or         *)
(*        "rebuild" (notifyElements)                                       *)
(***************************************************************************)
FnFrame(fn, h, inst, ret, el) ==
    [kind |-> "fn", fn |-> fn, pc |-> 1, h |-> h, inst |-> inst, ret |-> ret,
     el |-> el, cell |-> 0, list |-> <<>>, i |-> 0, sid |-> 0]
\* sid is an observation: the position in log of the set call that notifies
NotifyFrame(c, inst, list, sid) ==
    [kind |-> "notify", fn |-> "", pc |-> 0, h |-> 0, inst |-> inst, ret |-> "set",
     el |-> 0, cell |-> c, list |-> list, i |-> 1, sid |-> sid]

\* a try/catch around renderFn(tempR): the frames down to the forEach stay
CaughtInForEach(st) ==
    IF \E k \in DOMAIN st : st[k].kind = "notify"
    THEN SubSeq(st, 1, CHOOSE k \in DOMAIN st :
                          /\ st[k].kind = "notify"
                          /\ \A j \in DOMAIN st : st[j].kind = "notify" => j <= k)
    ELSE <<>>

\* the frames left when an exception has passed through st: none
Unwind(st) == <<>>

\* the innermost notification pass in progress on st: the position in log
\* of its set, 0 when there is none
InnerPass(st) ==
    LET ps == {k \in DOMAIN st : st[k].kind = "notify"}
    IN  IF ps = {} THEN 0 ELSE st[CHOOSE k \in ps : \A j \in ps : j <= k].sid

\* the rebuilds in progress on st, one inside the other
Rebuilding(st) == {k \in DOMAIN st : st[k].kind = "fn" /\ st[k].ret = "rebuild"}

\* a call: the callee's frame goes on top of the caller's frames
PushCall(rest, frame) == Append(rest, frame)

\* the notification put off until the frames of the caller are gone
DeferNotify(rest, frame) == <<frame>> \o rest

\* a set inside the notification of the same State skipped
CallNotifyOnce(rest, frame) ==
    IF \E k \in DOMAIN rest : rest[k].kind = "notify" /\ rest[k].cell = frame.cell
    THEN rest
    ELSE PushCall(rest, frame)

\* this.notifyElements() inside set: an ordinary call
CallNotify(rest, frame) == PushCall(rest, frame)

\* shift instead of pop: the oldest saved parent
PopBottom(s) == s[1]

\* what Array.prototype.pop returns, and what it leaves
PopValue(s) == s[Len(s)]
PopRest(s) == SubSeq(s, 1, Len(s) - 1)

\* a live collection in place of the NodeList: the marked elements of the
\* document as it is at each turn
LiveList(frame, ns) == QuerySelectorAll(ns)

\* the NodeList the forEach of notifyElements runs over: the static list
\* querySelectorAll returned when the pass began
ListAt(frame, ns) == frame.list

\* the callback called again for the same element of the list
SameTurn(i) == i

\* forEach calls the callback once for each element of the list, in order:
\* after the turn of index i comes that of index i + 1
NextTurn(i) == i + 1

\* tempR = r: the rebuild run on the root handle itself
RootHandle(k) == 0

\* tempR = Object.create(r): the rebuild runs on a handle of its own, the
\* k-th live one
FreshHandle(k) == k

Top == stack[Len(stack)]
\* the engine has room for the frame of one more call
CanCall == Len(stack) < MaxDepth
Below == SubSeq(stack, 1, Len(stack) - 1)
Running(kind) == stack # <<>> /\ Top.kind = kind
AtInstr(op) ==
    /\ Running("fn")
    /\ Top.pc <= Len(Body(app, Top.fn))
    /\ Body(app, Top.fn)[Top.pc].op = op
Instr == Body(app, Top.fn)[Top.pc]
\* the caller's frames, the top one moved past the call it is making
Advanced == [stack EXCEPT ![Len(stack)].pc = @ + 1]

\* this._currentElement of the handle a frame runs on
Cur(f) == IF f.h = 0 THEN rcur[f.inst] ELSE tcur[f.h]

\* an entry of log: a set call ("set", flag: it notifies; old and x: the
\* stored and the new value; force), the invocation of a stored content by
\* notifyElements ("rebuild", or "typeerror" when the content is no function;
\* flag: the element is in the document), the return of a notifying set
\* ("return"); sid is the position in log of the set call it belongs to and
\* depth the number of frames below the call
Event(ev, c, el, flag, sid, depth) ==
    [ev |-> ev, cell |-> c, el |-> el, flag |-> flag, sid |-> sid, depth |-> depth,
     old |-> 0, x |-> 0, force |-> FALSE]

\* the external call is over when the stack is empty again
Settle(st) == IF st = <<>> THEN [call EXCEPT !.status = "ok"] ELSE call

NoCall ==
    [kind |-> "none", status |-> "ok", cell |-> 0, x |-> 0, force |-> FALSE,
     old |-> 0, fn |-> ""]

\* an entry of hist, made when an external call starts: the call before it,
\* the document and the State objects it found
Past(c, ns, cs) == [call |-> c, nodes |-> ns, cells |-> cs]

\* createStatic has not been called
NoBuilder == [prog |-> "none", txt |-> <<>>]

(***************************************************************************)
(* createStatic (rsf-static.js).  A string is a sequence of tokens: each    *)
(* character of a text handed to the builder is a token, and so is each    *)
(* piece of markup the generator writes.  html is kept as the sequence of  *)
(* the pieces appended to it, each with what it is (k) and, for a value    *)
(* of the caller, the value as given (raw); the string is their            *)
(* concatenation.                                                          *)
(***************************************************************************)
Alphabet == {"a", "&", "<", ">", "\"", "'"}
Texts == UNION {[1..n -> Alphabet] : n \in 0..MaxLen}

\* values of props: a string, a boolean, a number, a function, an object
SStr(cs) == [t |-> "string", s |-> cs, b |-> FALSE, entries |-> <<>>]
SBool(b) == [t |-> "boolean", s |-> <<>>, b |-> b, entries |-> <<>>]
SNum(n) == [t |-> "number", s |-> <<ToStr(n)>>, b |-> FALSE, entries |-> <<>>]
SFun == [t |-> "function", s |-> <<>>, b |-> FALSE, entries |-> <<>>]
SObj(entries) == [t |-> "object", s |-> <<>>, b |-> FALSE, entries |-> entries]
SNone == [t |-> "undefined", s |-> <<>>, b |-> FALSE, entries |-> <<>>]

\* String(value)
SString(v) ==
    CASE v.t = "boolean" -> (IF v.b THEN <<"true">> ELSE <<"false">>)
      [] v.t = "undefined" -> <<"undefined">>
      [] OTHER -> v.s

\* content arguments: a function of the builder, or a value
SContentFn(f) == [k |-> "fn", fn |-> f, v |-> SNone]
SContent(v) == [k |-> "val", fn |-> "", v |-> v]
SNoContent == [k |-> "none", fn |-> "", v |-> SNone]

\* the calls a builder makes: r.elem(tag, props, content), r[tag](arg),
\* r.text(content)
SElem(tag, props, content) ==
    [op |-> "elem", tag |-> tag, props |-> props, content |-> content]
STag(tag, arg) == [op |-> "tag", tag |-> tag, props |-> <<>>, content |-> arg]
SText(v) == [op |-> "text", tag |-> "", props |-> <<>>, content |-> SContent(v)]

StaticProgs == {"page", "styled", "raw", "short"}
StaticInputs == [prog : StaticProgs, txt : Texts]

\* the builder functions, with the text txt at the places a caller's value
\* goes
SBody(b, f) ==
    CASE b.prog = "page" ->
           (CASE f = "main" ->
                   << SElem("div", <<KV("class", SStr(b.txt)), KV("dataMark", SStr(b.txt)),
                                     KV("watch", SObj(<<>>)), KV("click", SFun)>>,
                            SContentFn("inner")),
                      SElem("br", <<>>, SNoContent) >>
              [] OTHER ->
                   << SElem("p", <<>>, SContent(SStr(b.txt))),
                      SText(SStr(b.txt)),
                      SElem("img", <<KV("alt", SStr(b.txt)), KV("hidden", SBool(TRUE))>>,
                            SNoContent) >>)
      [] b.prog = "styled" ->
           << SElem("div", <<KV("style", SObj(<<KV("color", b.txt),
                                                KV("fontSize", <<"1", "2", "p", "x">>)>>)),
                             KV("disabled", SStr(<<"f", "a", "l", "s", "e">>)),
                             KV("checked", SBool(FALSE))>>,
                    SContent(SStr(b.txt))),
              SElem("span", <<KV("style", SStr(b.txt))>>, SContent(SNum(7))) >>
      [] b.prog = "raw" ->
           << SElem("div", <<KV("html", SBool(TRUE))>>, SContent(SStr(b.txt))),
              SElem("p", <<KV("html", SStr(<<"t", "r", "u", "e">>))>>,
                    SContent(SStr(b.txt))) >>
      [] OTHER ->
           (CASE f = "main" ->
                   << STag("h1", SContent(SStr(b.txt))),
                      STag("span", SContent(SNum(5))),
                      STag("ul", SContentFn("items")),
                      STag("text", SContent(SStr(b.txt))) >>
              [] OTHER ->
                   << STag("li", SContent(SStr(b.txt))) >>)

selfClosingTags ==
    {"area", "base", "br", "col", "embed", "hr", "img", "input", "link", "meta",
     "param", "source", "track", "wbr"}

\* escapeHtml of one character: & first, so no entity is escaped again
EscapeChar(ch) ==
    CASE ch = "&" -> "&amp;"
      [] ch = "<" -> "&lt;"
      [] ch = ">" -> "&gt;"
      [] ch = "\"" -> "&quot;"
      [] ch = "'" -> "&#039;"
      [] OTHER -> ch

\* escapeHtml(text) on String(text)
escapeHtml(cs) == [i \in 1..Len(cs) |-> EscapeChar(cs[i])]

\* a piece of html: markup of the generator ("markup"), an attribute name
\* ("name"), a style property name ("key"), an attribute value ("attr"), a
\* value of a style object ("style"), a text content ("text"), a content
\* written with html: true ("html")
Piece(k, s, raw) == [k |-> k, s |-> s, raw |-> raw]
Markup(s) == Piece("markup", <<s>>, <<>>)

RECURSIVE StyleEntries(_)
\* Object.entries(value).map(([k, v]) => `${camelToKebab(k)}: ${v}`).join('; ')
StyleEntries(es) ==
    IF es = <<>> THEN <<>>
    ELSE << Piece("key", <<camelToKebab(Head(es).key)>>, <<Head(es).key>>),
            Markup(": "),
            Piece("style", Head(es).val, Head(es).val) >>
         \o (IF Len(es) > 1 THEN <<Markup("; ")>> ELSE <<>>)
         \o StyleEntries(Tail(es))

\* what one entry of Object.entries(props) adds to attrs
StaticAttr(key, value) ==
    LET attr == camelToKebab(key)
    IN  IF key = "watch" \/ key = "html" THEN <<>>
        ELSE IF key = "style"
        THEN IF value.t = "object"
             THEN <<Markup(" style=\"")>> \o StyleEntries(value.entries) \o <<Markup("\"")>>
             ELSE << Markup(" style=\""),
                     Piece("attr", escapeHtml(SString(value)), SString(value)),
                     Markup("\"") >>
        ELSE IF attr \in booleanAttributes
        THEN IF value.t = "boolean" /\ value.b
             THEN << Piece("name", <<" ", attr>>, <<attr>>) >>
             ELSE <<>>
        ELSE IF value.t = "function" THEN <<>>
        ELSE << Piece("name", <<" ", attr>>, <<attr>>),
                Markup("=\""),
                Piece("attr", escapeHtml(SString(value)), SString(value)),
                Markup("\"") >>

RECURSIVE StaticAttrs(_)
\* Object.entries(props).forEach
StaticAttrs(kvs) ==
    IF kvs = <<>> THEN <<>>
    ELSE StaticAttr(Head(kvs).key, Head(kvs).val) \o StaticAttrs(Tail(kvs))

\* props.html === true
StaticHtml(kvs) ==
    \E i \in 1..Len(kvs) :
        kvs[i].key = "html" /\ kvs[i].val.t = "boolean" /\ kvs[i].val.b

\* html += `<${tag}${attrs}>`
OpenTag(tag, kvs) == <<Markup("<"), Markup(tag)>> \o StaticAttrs(kvs) \o <<Markup(">")>>

\* if (!selfClosingTags.includes(tag)) html += `</${tag}>`
CloseTag(tag) ==
    IF tag = "" \/ tag \in selfClosingTags THEN <<>>
    ELSE <<Markup("</"), Markup(tag), Markup(">")>>

\* a content that is no function: String(childContent) or its escape
StaticContent(kvs, v) ==
    IF StaticHtml(kvs) THEN << Piece("html", SString(v), SString(v)) >>
    ELSE << Piece("text", escapeHtml(SString(v)), SString(v)) >>

\* the arguments elem gets from r[tag](propsOrContent): a string or a
\* function is content, anything else is props (a number has no entries)
StaticShorthand(arg) ==
    IF arg.k = "fn" \/ (arg.k = "val" /\ arg.v.t = "string")
    THEN [props |-> <<>>, content |-> arg]
    ELSE [props |-> <<>>, content |-> SNoContent]

RECURSIVE Flatten(_)
\* the string: the pieces one after the other
Flatten(ps) == IF ps = <<>> THEN <<>> ELSE Head(ps).s \o Flatten(Tail(ps))

\* a frame of the builder: function fn at instruction pc; tag: the element
\* whose content the function is ("": renderFn itself)
StaticFrame(fn, tag) == [fn |-> fn, pc |-> 1, tag |-> tag]

STop == sstack[Len(sstack)]
SInstr == SBody(sin, STop.fn)[STop.pc]
SAtInstr(ops) ==
    /\ sstack # <<>>
    /\ STop.pc <= Len(SBody(sin, STop.fn))
    /\ SInstr.op \in ops
SAdvanced == [sstack EXCEPT ![Len(sstack)].pc = @ + 1]

Init ==
    /\ \/ app \in Apps /\ sin = NoBuilder
       \/ app = "static" /\ sin \in StaticInputs
    /\ phase = 0
    /\ nodes = InitNodes
    /\ cells = [c \in Cells |-> [value |-> CellInit(app, c), stateId |-> Undefined,
                                  debug |-> CellDebug(app, c)]]
    /\ heap = HeapInit(app)
    /\ stateIdCounter = [i \in Insts |-> 0]
    /\ relem = [i \in Insts |-> 0]
    /\ rcur = [i \in Insts |-> 0]
    /\ rstack = [i \in Insts |-> <<>>]
    /\ tcur = <<>>
    /\ stack = <<>>
    /\ call = NoCall
    /\ prev = NoCall
    /\ snap = InitNodes
    /\ log = <<>>
    /\ nsets = 0
    /\ hist = <<>>
    /\ console = <<>>
    /\ shtml = <<>>
    /\ sstack = <<>>
    /\ sout = <<>>

(***************************************************************************)
(* rsf(anchor, child): a new r with its own _stack and stateIdCounter,    *)
(* then r.render(): init, clear the anchor, call child(r).                 *)
(***************************************************************************)
\* the test of init dropped: a null _element passes
AnchorAny(a) == TRUE

\* init: if (!this._element) throw
AnchorFound(a) == a # 0

Rsf ==
    /\ stack = <<>>
    /\ phase < Len(Mounts(app))
    /\ LET m == Mounts(app)[phase + 1]
           a == QuerySelector(m.anchor)
       IN  /\ phase' = phase + 1
           /\ prev' = call
           /\ snap' = nodes
           /\ hist' = Append(hist, Past(call, nodes, cells))
           /\ log' = <<>>
           /\ rstack' = [rstack EXCEPT ![m.inst] = <<>>]
           /\ stateIdCounter' = [stateIdCounter EXCEPT ![m.inst] = 0]
           /\ relem' = [relem EXCEPT ![m.inst] = a]
           /\ IF ~AnchorFound(a)
              THEN /\ call' = [NoCall EXCEPT !.kind = "rsf", !.status = "threw"]
                   /\ UNCHANGED <<nodes, rcur, stack>>
              ELSE /\ call' = [NoCall EXCEPT !.kind = "rsf", !.status = "running"]
                   /\ rcur' = [rcur EXCEPT ![m.inst] = a]
                   /\ nodes' = ClearChildren(nodes, a)
                   /\ stack' = << FnFrame(m.child, 0, m.inst, "render", a) >>
    /\ UNCHANGED <<app, cells, heap, tcur, nsets, console,
                   sin, shtml, sstack, sout>>

(***************************************************************************)
(* State.set(x, force) called with the frames `rest` below it.             *)
(***************************************************************************)
\* the assignment moved out of the if: the value is always replaced
StoreAlways(cur, x, notify) == x

\* this._value after set: newValue when the condition held, else untouched
StoredValue(cur, x, notify) == IF notify THEN x ELSE cur

\* the comparator called by set(x, force) on State c throws
SetThrows(c, x, force) ==
    CompareCalled(force) /\ CompareThrows(CellCompare(app, c), cells[c].value, x)

DoSet(c, x, force, rest, lg) ==
    LET notify == ShouldNotify(CellCompare(app, c), cells[c].value, x, force)
    IN  IF SetThrows(c, x, force)
        THEN \* the exception leaves set and every caller of it
             /\ cells' = cells
             /\ stack' = Unwind(rest)
             /\ tcur' = <<>>
             /\ log' = Append(lg, [Event("set", c, 0, FALSE, Len(lg) + 1, Len(rest))
                                      EXCEPT !.old = cells[c].value, !.x = x, !.force = force])
        ELSE /\ cells' = [cells EXCEPT ![c].value = StoredValue(@, x, notify)]
             /\ stack' = IF notify
                         THEN CallNotify(rest, NotifyFrame(c, CellInst(app, c),
                                                           QuerySelectorAll(nodes), Len(lg) + 1))
                         ELSE rest
             /\ tcur' = tcur
             /\ log' = Append(lg, [Event("set", c, 0, notify, Len(lg) + 1, Len(rest))
                                      EXCEPT !.old = cells[c].value, !.x = x, !.force = force])

\* how an external call of set stands when its first step is over
SetStatus(c, x, force, st) ==
    IF SetThrows(c, x, force) THEN "threw"
    ELSE IF st = <<>> THEN "ok" ELSE "running"

\* external code (an event handler, a timer) calls cell.set(x, force)
ExternalSet ==
    /\ stack = <<>>
    /\ phase = Len(Mounts(app))
    /\ nsets < SetBudget(app)
    /\ \E c \in AppCells(app), x \in AppValues(app), force \in BOOLEAN :
          /\ DoSet(c, x, force, <<>>, <<>>)
          /\ call' = [kind |-> "set", cell |-> c, x |-> x, force |-> force,
                      old |-> cells[c].value, fn |-> "",
                      status |-> SetStatus(c, x, force, stack')]
    /\ prev' = call
    /\ snap' = nodes
    /\ hist' = Append(hist, Past(call, nodes, cells))
    /\ nsets' = nsets + 1
    /\ UNCHANGED <<app, phase, nodes, heap, stateIdCounter, relem, rcur, rstack, console,
                   sin, shtml, sstack, sout>>

\* force not handed on: this.set(newValue)
UpdateNoForce(cur, fn, force) == [x |-> ApplyFn(fn, cur), force |-> FALSE]

\* update: currentValue = this.get(); newValue = updaterFn(currentValue);
\* the arguments of this.set(newValue, force)
UpdateCall(cur, fn, force) == [x |-> ApplyFn(fn, cur), force |-> force]

\* external code calls cell.update(fn, force)
ExternalUpdate ==
    /\ stack = <<>>
    /\ phase = Len(Mounts(app))
    /\ nsets < SetBudget(app)
    /\ \E c \in AppCells(app), fn \in AppUpdaters(app), force \in BOOLEAN :
          LET args == UpdateCall(cells[c].value, fn, force)
          IN  /\ DoSet(c, args.x, args.force, <<>>, <<>>)
              /\ call' = [kind |-> "update", cell |-> c, x |-> args.x, force |-> force,
                          old |-> cells[c].value, fn |-> fn,
                          status |-> SetStatus(c, args.x, args.force, stack')]
    /\ prev' = call
    /\ snap' = nodes
    /\ hist' = Append(hist, Past(call, nodes, cells))
    /\ nsets' = nsets + 1
    /\ UNCHANGED <<app, phase, nodes, heap, stateIdCounter, relem, rcur, rstack,
                   console, sin, shtml, sstack, sout>>

\* a content function calls cell.set(src.get() + add, force)
ExecSet ==
    /\ AtInstr("set")
    /\ CanCall
    /\ LET x == IF Instr.src = 0 THEN Instr.add
                ELSE (cells[Instr.src].value + Instr.add) % (MaxVal + 1)
       IN  /\ DoSet(Instr.cell, x, Instr.force, Advanced, log)
           /\ call' = IF SetThrows(Instr.cell, x, Instr.force)
                      THEN [call EXCEPT !.status = "threw"]
                      ELSE call
    /\ UNCHANGED <<app, phase, nodes, heap, stateIdCounter, relem, rcur, rstack,
                   prev, snap, nsets, hist,
                   console, sin, shtml, sstack, sout>>

(***************************************************************************)
(* this.elem(tag, props, content) called by the function on top.           *)
(***************************************************************************)
\* what one call of elem is observed to be: the props as written, and for a
\* call made by renderReactive the State it created and the States given
Ghost(raw, rstate, given, short) ==
    [raw |-> raw, rstate |-> rstate, given |-> given, short |-> short]

\* elem(tag, props, content) called by the function on top; pobj # 0: props
\* is the object heap[pobj]; hp: the heap when the call is made
DoElem(tag, pobj, props, content, hp, ghost) ==
    LET f == Top
        made == ElemCreate(nodes, cells, stateIdCounter[f.inst], Cur(f),
                           tag, props, content)
    IN  /\ nodes' = [n \in DOMAIN made.nodes |->
                     IF n = made.el
                     THEN [made.nodes[n] EXCEPT !.by = f.el, !.kvs = props.attrs,
                                                !.raw = ghost.raw,
                                                !.rstate = ghost.rstate,
                                                !.given = ghost.given,
                                                !.short = ghost.short,
                                                !.pass = InnerPass(stack),
                                                !.pobj = pobj]
                     ELSE IF n > made.el THEN [made.nodes[n] EXCEPT !.by = made.el]
                     ELSE made.nodes[n]]
        /\ cells' = made.cells
        /\ stateIdCounter' = [stateIdCounter EXCEPT ![f.inst] = made.counter]
        \* delete props.watch
        /\ heap' = IF pobj # 0 /\ WatchGiven(props.watch)
                   THEN [hp EXCEPT ![pobj].watch = NoWatch]
                   ELSE hp
        /\ IF content.k = "fn"
           THEN \* push the cursor, move it to the element, call content(this)
                /\ rstack' = [rstack EXCEPT ![f.inst] = Append(@, Cur(f))]
                /\ IF f.h = 0
                   THEN /\ rcur' = [rcur EXCEPT ![f.inst] = made.el]
                        /\ tcur' = tcur
                   ELSE /\ tcur' = [tcur EXCEPT ![f.h] = made.el]
                        /\ rcur' = rcur
                /\ stack' = PushCall(Advanced,
                                     FnFrame(content.fn, f.h, f.inst, "elem", made.el))
           ELSE /\ stack' = Advanced
                /\ UNCHANGED <<rstack, rcur, tcur>>

ExecElem ==
    /\ AtInstr("elem")
    /\ CanCall
    /\ LET ins == Instr
           props == IF ins.pobj = 0 THEN ins.props ELSE heap[ins.pobj]
       IN  DoElem(ins.tag, ins.pobj, EvalProps(props, cells),
                  EvalContent(ins.content, cells), heap,
                  Ghost(props.attrs, 0, {}, NoShort))
    /\ UNCHANGED <<app, phase, relem, call, prev, snap, log, nsets, hist,
                   console, sin, shtml, sstack, sout>>

(***************************************************************************)
(* renderReactive(r, initial, child, options) called by the function on    *)
(* top.  props is a shallow copy of options: the array options.watch is    *)
(* shared with it, and push adds the new State to that array.  A State     *)
(* given as options.watch has no push method.  The container is built by   *)
(* r[tag](props, r => child(r, state)); the wrapper and child run as one   *)
(* content function.                                                       *)
(***************************************************************************)
\* options.tag || 'div'
TagOf(kvs) ==
    IF \E i \in 1..Len(kvs) : kvs[i].key = "tag"
    THEN (CHOOSE v \in {kvs[i].val : i \in {j \in 1..Len(kvs) : kvs[j].key = "tag"}} : TRUE).s
    ELSE "div"

\* props = { ...options }; delete props.tag
WithoutTag(kvs) == SelectSeq(kvs, LAMBDA kv : kv.key # "tag")

\* props.watch.push(state) on the array the options object holds
PushShared(hp, pobj, c) == [hp EXCEPT ![pobj].watch.cells = Append(@, c)]

ExecReactive ==
    /\ AtInstr("reactive")
    /\ CanCall
    /\ LET ins == Instr
           c == ins.cell
           options == IF ins.pobj = 0 THEN Props(NoWatch, <<>>) ELSE heap[ins.pobj]
           w == options.watch
       IN  IF w.k = "cell"
           THEN \* TypeError: props.watch.push is not a function
                /\ stack' = <<>>
                /\ tcur' = <<>>
                /\ call' = [call EXCEPT !.status = "threw"]
                /\ UNCHANGED <<nodes, cells, stateIdCounter, heap, rstack, rcur, log>>
           ELSE LET hp == IF w.k = "array" THEN PushShared(heap, ins.pobj, c)
                                           ELSE heap
                    watch == IF w.k = "array" THEN hp[ins.pobj].watch
                                              ELSE WArr(<<c>>)
                    props == Props(watch, WithoutTag(options.attrs))
                IN  /\ DoElem(TagOf(options.attrs), 0, props, ins.content, hp,
                              Ghost(options.attrs, c,
                                    {w.cells[i] : i \in 1..Len(w.cells)}, NoShort))
                    /\ UNCHANGED <<call, log>>
    /\ UNCHANGED <<app, phase, relem, prev, snap, nsets, hist,
                   console, sin, shtml, sstack, sout>>

(***************************************************************************)
(* r[tag](propsOrContent) called by the function on top.  The tag methods  *)
(* are made for every name of the tags table but 'text', for which r.text  *)
(* stays the method that appends a text node.                              *)
(***************************************************************************)
\* the arguments elem gets: typeof propsOrContent is 'string' or 'function':
\* elem(tag, {}, propsOrContent); else elem(tag, propsOrContent || {},
\* undefined), where a number has no watch and no entries
Shorthand(arg) ==
    IF arg.k \in {"str", "fn"}
    THEN [props |-> Props(NoWatch, <<>>), content |-> arg]
    ELSE [props |-> Props(NoWatch, <<>>), content |-> CNone]

\* r.text after the two loops that define the shorthands: the standard
\* loop skips the tag 'text', the loop over options.addTags does not, and
\* r['text'] = function (propsOrContent, content) {...} takes the place of
\* the text method
TextIsShorthand(a) == "text" \in AddTags(a)

\* document.createTextNode(String(content)) appended to the cursor
DoText(s, short) ==
    /\ nodes' = AppendChild(nodes, Cur(Top),
                            [Node("text", "", 0, <<>>, s)
                                EXCEPT !.by = Top.el, !.short = short])
    /\ stack' = Advanced

ExecTag ==
    /\ AtInstr("tag")
    /\ CanCall
    /\ LET ins == Instr
           arg == EvalContent(ins.content, cells)
           n == Shorthand(arg)
       IN  IF ins.tag = "text" /\ ~TextIsShorthand(app)
           THEN /\ DoText(arg.s, Short(ins.tag, arg))
                /\ UNCHANGED <<cells, heap, stateIdCounter, rcur, rstack, tcur>>
           ELSE DoElem(ins.tag, 0, n.props, n.content, heap,
                       Ghost(<<>>, 0, {}, Short(ins.tag, arg)))
    /\ UNCHANGED <<app, phase, relem, call, prev, snap, log, nsets, hist,
                   console, sin, shtml, sstack, sout>>

\* this.text(content): a text node appended to the cursor; or, when r.text
\* is the shorthand of options.addTags, this.elem('text', {}, content)
ExecText ==
    /\ AtInstr("text")
    /\ CanCall
    /\ LET arg == EvalContent(Instr.content, cells)
           n == Shorthand(arg)
       IN  IF TextIsShorthand(app)
           THEN DoElem("text", 0, n.props, n.content, heap,
                       Ghost(<<>>, 0, {}, NoShort))
           ELSE /\ DoText(arg.s, NoShort)
                /\ UNCHANGED <<cells, heap, stateIdCounter, rcur, rstack, tcur>>
    /\ UNCHANGED <<app, phase, relem, call, prev, snap, log, nsets, hist,
                   console, sin, shtml, sstack, sout>>

(***************************************************************************)
(* A content function throws.  Nothing in the library catches: the forEach *)
(* of notifyElements, set and every elem on the way are left at once, and  *)
(* no elem restores its cursor.                                            *)
(***************************************************************************)
ExecThrow ==
    /\ AtInstr("throw")
    /\ IF cells[Instr.cell].value = Instr.add
       THEN LET rb == Rebuilding(stack)
                k == IF rb = {} THEN 0 ELSE CHOOSE i \in rb : \A j \in rb : j <= i
            IN  /\ stack' = Unwind(stack)
                /\ tcur' = SubSeq(tcur, 1, Cardinality(Rebuilding(stack')))
                /\ call' = IF stack' = <<>> THEN [call EXCEPT !.status = "threw"] ELSE call
                /\ log' = Append(log, IF k = 0 THEN Event("throw", 0, 0, FALSE, 0, Len(stack))
                                      ELSE Event("throw", stack[k - 1].cell, stack[k].el,
                                                 IsAttached(nodes, stack[k].el),
                                                 stack[k - 1].sid, Len(stack)))
       ELSE /\ stack' = Advanced
            /\ UNCHANGED <<tcur, call, log>>
    /\ UNCHANGED <<app, phase, nodes, cells, heap, stateIdCounter, relem, rcur, rstack,
                   prev, snap, nsets, hist, console, sin, shtml, sstack, sout>>

(***************************************************************************)
(* A builder or content function returns to what called it.                *)
(***************************************************************************)
FnReturn ==
    /\ Running("fn")
    /\ Top.pc > Len(Body(app, Top.fn))
    /\ LET f == Top
           saved == PopValue(rstack[f.inst])
       IN  /\ stack' = Below
           /\ IF f.ret = "elem"
              THEN \* this._currentElement = this._stack.pop()
                   /\ rstack' = [rstack EXCEPT ![f.inst] = PopRest(@)]
                   /\ IF f.h = 0
                      THEN /\ rcur' = [rcur EXCEPT ![f.inst] = saved]
                           /\ tcur' = tcur
                      ELSE /\ tcur' = [tcur EXCEPT ![f.h] = saved]
                           /\ rcur' = rcur
              ELSE /\ tcur' = IF f.ret = "rebuild" THEN PopRest(tcur) ELSE tcur
                   /\ UNCHANGED <<rstack, rcur>>
           /\ call' = Settle(stack')
    /\ UNCHANGED <<app, phase, nodes, cells, heap, stateIdCounter, relem, prev, snap,
                   log, nsets, hist,
                   console, sin, shtml, sstack, sout>>

(***************************************************************************)
(* notifyElements: one turn of the forEach over the static list.           *)
(***************************************************************************)
NotifyNext ==
    /\ Running("notify")
    /\ Top.i <= Len(ListAt(Top, nodes))
    /\ CanCall
    /\ LET f == Top
           element == ListAt(f, nodes)[f.i]
           watching == Split(nodes[element].watching)
           renderFn == nodes[element].render
           next == [stack EXCEPT ![Len(stack)].i = NextTurn(@)]
       IN  IF Includes(watching, cells[f.cell].stateId) /\ Truthy(renderFn)
           THEN /\ nodes' = EmptyElement(nodes, element)
                /\ IF renderFn.k = "fn"
                   THEN \* tempR = Object.create(r); tempR._currentElement = element;
                        \* renderFn(tempR)
                        /\ tcur' = Append(tcur, element)
                        /\ rcur' = IF FreshHandle(Len(tcur) + 1) = 0
                                   THEN [rcur EXCEPT ![f.inst] = element]
                                   ELSE rcur
                        /\ stack' = PushCall(next, FnFrame(renderFn.fn,
                                                           FreshHandle(Len(tcur) + 1),
                                                           f.inst, "rebuild", element))
                        /\ log' = Append(log, Event("rebuild", f.cell, element,
                                                    IsAttached(nodes, element),
                                                    f.sid, Len(stack)))
                        /\ call' = call
                   ELSE \* TypeError: renderFn is not a function
                        /\ tcur' = <<>>
                        /\ rcur' = rcur
                        /\ stack' = <<>>
                        /\ log' = Append(log, Event("typeerror", f.cell, element,
                                                    IsAttached(nodes, element),
                                                    f.sid, Len(stack)))
                        /\ call' = [call EXCEPT !.status = "threw"]
           ELSE /\ stack' = next
                /\ UNCHANGED <<nodes, tcur, rcur, log, call>>
    /\ UNCHANGED <<app, phase, cells, heap, stateIdCounter, relem, rstack,
                   prev, snap, nsets, hist,
                   console, sin, shtml, sstack, sout>>

\* the forEach is over: notifyElements and set return
NotifyReturn ==
    /\ Running("notify")
    /\ Top.i > Len(ListAt(Top, nodes))
    /\ stack' = Below
    /\ log' = Append(log, Event("return", Top.cell, 0, TRUE, Top.sid, Len(stack) - 1))
    /\ call' = Settle(stack')
    /\ UNCHANGED <<app, phase, nodes, cells, heap, stateIdCounter, relem, rcur,
                   rstack, tcur, prev, snap, nsets, hist,
                   console, sin, shtml, sstack, sout>>

\* a call made when the stack of the engine is full: RangeError, which
\* nothing catches
StackOverflow ==
    /\ stack # <<>>
    /\ ~CanCall
    /\ \/ Running("fn") /\ Top.pc <= Len(Body(app, Top.fn))
       \/ Running("notify") /\ Top.i <= Len(ListAt(Top, nodes))
    /\ stack' = <<>>
    /\ tcur' = <<>>
    /\ call' = [call EXCEPT !.status = "threw"]
    /\ log' = Append(log, Event("overflow", 0, 0, FALSE, 0, Len(stack)))
    /\ UNCHANGED <<app, phase, nodes, cells, heap, stateIdCounter, relem, rcur,
                   rstack, prev, snap, nsets, hist, console, sin, shtml, sstack, sout>>

(***************************************************************************)
(* createStatic: the call, the methods of its r, the return.               *)
(***************************************************************************)
\* html declared outside createStatic: one string for all calls
KeptHtml(old) == old

\* let html = '' at the start of every call
FreshHtml(old) == <<>>

\* createStatic(renderFn) is called: html is declared, renderFn(r) begins
CreateStatic ==
    /\ sin # NoBuilder
    /\ sstack = <<>>
    /\ Len(sout) < MaxCalls
    /\ shtml' = FreshHtml(shtml)
    /\ sstack' = << StaticFrame("main", "") >>
    /\ UNCHANGED <<sin, sout>>
    /\ UNCHANGED domVars

\* r.elem(tag, props, content), also reached through r[tag]
StaticElem ==
    /\ SAtInstr({"elem", "tag"})
    /\ ~(SInstr.op = "tag" /\ SInstr.tag = "text")
    /\ LET ins == SInstr
           n == IF ins.op = "tag" THEN StaticShorthand(ins.content)
                ELSE [props |-> ins.props, content |-> ins.content]
           open == OpenTag(ins.tag, n.props)
       IN  IF n.content.k = "fn"
           THEN /\ shtml' = shtml \o open
                /\ sstack' = Append(SAdvanced, StaticFrame(n.content.fn, ins.tag))
           ELSE /\ shtml' = shtml \o open
                              \o (IF n.content.k = "val"
                                  THEN StaticContent(n.props, n.content.v)
                                  ELSE <<>>)
                              \o CloseTag(ins.tag)
                /\ sstack' = SAdvanced
    /\ UNCHANGED <<sin, sout>>
    /\ UNCHANGED domVars

\* r.text(content): html += escapeHtml(content)
StaticText ==
    /\ \/ SAtInstr({"text"})
       \/ SAtInstr({"tag"}) /\ SInstr.tag = "text"
    /\ LET v == IF SInstr.content.k = "val" THEN SInstr.content.v ELSE SFun
       IN  shtml' = Append(shtml, Piece("text", escapeHtml(SString(v)), SString(v)))
    /\ sstack' = SAdvanced
    /\ UNCHANGED <<sin, sout>>
    /\ UNCHANGED domVars

\* a function of the builder returns: to elem, which closes the tag, or to
\* createStatic, which returns html
StaticReturn ==
    /\ sstack # <<>>
    /\ STop.pc > Len(SBody(sin, STop.fn))
    /\ shtml' = shtml \o CloseTag(STop.tag)
    /\ sstack' = SubSeq(sstack, 1, Len(sstack) - 1)
    /\ sout' = IF Len(sstack) = 1 THEN Append(sout, Flatten(shtml')) ELSE sout
    /\ UNCHANGED sin
    /\ UNCHANGED domVars

Next ==
    \/ Rsf
    \/ ExternalSet
    \/ ExternalUpdate
    \/ ExecSet
    \/ ExecElem
    \/ ExecReactive
    \/ ExecTag
    \/ ExecText
    \/ ExecThrow
    \/ FnReturn
    \/ NotifyNext
    \/ NotifyReturn
    \/ StackOverflow
    \/ CreateStatic
    \/ StaticElem
    \/ StaticText
    \/ StaticReturn

Spec == Init /\ [][Next]_vars

\* one step of the call that is running: the engine is single-threaded and
\* runs a call to completion, so a call that can take a step takes it
Run ==
    \/ ExecSet
    \/ ExecElem
    \/ ExecReactive
    \/ ExecTag
    \/ ExecText
    \/ ExecThrow
    \/ FnReturn
    \/ NotifyNext
    \/ NotifyReturn
    \/ StackOverflow

\* the program with the engine never stopping in the middle of a call; what
\* external code calls, and when, stays free
FairSpec == Spec /\ WF_vars(Run)

(***************************************************************************)
(* Observations used by the properties.                                    *)
(***************************************************************************)
\* an external set call is over: it returned or an exception left it
SetOver == call.kind = "set" /\ stack = <<>>
SetReturned == SetOver /\ call.status = "ok"

\* the comparator of the external call's cell reports no change
CallEqual == Compare(CellCompare(app, call.cell), call.old, call.x)

\* positions in log of the invocations of stored contents
Invocations == {i \in DOMAIN log : log[i].ev \in {"rebuild", "typeerror"}}
\* the elements whose stored content notifyElements invoked
Rebuilt == {log[i].el : i \in Invocations}
\* the invocations of the stored content of n that belong to set call sid
RebuildsOf(n, sid) ==
    {i \in DOMAIN log : log[i].ev = "rebuild" /\ log[i].el = n /\ log[i].sid = sid}
\* the cells whose set notified during the external call
NotifiedCells == {log[i].cell : i \in {j \in DOMAIN log : log[j].ev = "set" /\ log[j].flag}}

\* the identity tokens of the States an element declared in props.watch
DeclIds(ns, e) == {cells[c].stateId : c \in ns[e].decl}

\* the elements of the document ns that declared cell c and store a
\* child-producing function / a literal
FnWatchers(ns, c) ==
    {n \in DOMAIN ns : /\ ns[n].kind = "elem" /\ c \in ns[n].decl
                       /\ ns[n].render.k = "fn" /\ IsAttached(ns, n)}
LitWatchers(ns, c) ==
    {n \in DOMAIN ns : /\ ns[n].kind = "elem" /\ c \in ns[n].decl
                       /\ ns[n].render.k = "str" /\ IsAttached(ns, n)}

RECURSIVE Ancestors(_, _)
\* n and its ancestors in ns
Ancestors(ns, n) ==
    IF n = 0 THEN {} ELSE {n} \cup Ancestors(ns, ns[n].parent)

\* the nodes of the subtree of e in ns
Subtree(ns, e) == {n \in DOMAIN ns : e \in Ancestors(ns, n)}

\* positions in log of the set calls that notified, and of the return of
\* set call i
Sets == {i \in DOMAIN log : log[i].ev = "set" /\ log[i].flag}
Returns(i) == {r \in DOMAIN log : log[r].ev = "return" /\ log[r].sid = i}

RECURSIVE Shape(_, _)
RECURSIVE ShapeAll(_, _)
\* the subtree of n without the identity of its nodes: structure,
\* attributes and text
Shape(ns, n) ==
    [kind |-> ns[n].kind, tag |-> ns[n].tag, text |-> ns[n].text,
     attrs |-> ns[n].attrs, hasWatch |-> ns[n].hasWatch,
     watching |-> ns[n].watching, kids |-> ShapeAll(ns, ns[n].kids)]
ShapeAll(ns, ks) ==
    IF ks = <<>> THEN <<>> ELSE <<Shape(ns, Head(ks))>> \o ShapeAll(ns, Tail(ks))

\* the step is the invocation by notifyElements of the stored content of n
RebuildStep(n) ==
    /\ Len(log') = Len(log) + 1
    /\ log'[Len(log')].ev \in {"rebuild", "typeerror"}
    /\ log'[Len(log')].el = n

(***************************************************************************)
(* Properties.                                                              *)
(***************************************************************************)

\* C1 (change-gated notification): an external set(x) without force whose
\* comparator reports no change invokes no stored content; an external
\* set(x, true) invokes the stored content function of every element that was
\* in the document and watching the cell when the call started.
C1_ChangeGatedNotification ==
    /\ (SetOver /\ ~call.force /\ CallEqual) => Invocations = {}
    /\ (SetOver /\ call.force) =>
          \A n \in FnWatchers(snap, call.cell) : RebuildsOf(n, 1) # {}

\* C2 (exactly one rebuild per watcher per change): when an external set whose
\* comparator reports a change is over, the stored content function of every
\* element that was watching the cell has been invoked exactly once by it.
C2_ExactlyOneRebuild ==
    (SetOver /\ ~CallEqual) =>
        \A n \in FnWatchers(snap, call.cell) : Cardinality(RebuildsOf(n, 1)) = 1

\* C3 as claimed (scoped notification): during and after an external set,
\* every node in the subtree of an element whose watch set holds none of the
\* cells set keeps its children and its text.
C3_DisjointWatcherUntouched ==
    call.kind = "set" =>
        \A e \in DOMAIN snap :
            (snap[e].hasWatch
               /\ DeclIds(snap, e) \cap {cells[c].stateId : c \in NotifiedCells} = {})
            => \A n \in Subtree(snap, e) :
                  nodes[n].kids = snap[n].kids /\ nodes[n].text = snap[n].text

\* C3 as amended: only elements whose declared watch set contains the
\* identity of the cell set are rebuilt, and every node that is not inside a
\* rebuilt element keeps its children, its text and its parent (a rebuilt
\* element keeps its parent): an element watching other cells changes only
\* inside the watchers of the cell nested in it.
C3_ScopedNotification ==
    call.kind = "set" =>
        /\ \A i \in Invocations :
              cells[log[i].cell].stateId \in DeclIds(nodes, log[i].el)
        /\ \A n \in DOMAIN snap :
              /\ (Ancestors(snap, n) \cap Rebuilt = {}) =>
                    nodes[n].kids = snap[n].kids /\ nodes[n].text = snap[n].text
              /\ ((Ancestors(snap, n) \ {n}) \cap Rebuilt = {}) =>
                    nodes[n].parent = snap[n].parent

\* C3 witness: a set that rebuilt some element is over and an element of the
\* document watching only other cells, with children, was not rebuilt.
C3_Witness ==
    /\ SetOver
    /\ Rebuilt # {}
    /\ \E e \in DOMAIN snap :
          /\ snap[e].hasWatch /\ IsAttached(snap, e) /\ snap[e].kids # <<>>
          /\ DeclIds(snap, e) \cap {cells[c].stateId : c \in NotifiedCells} = {}
          /\ Ancestors(snap, e) \cap Rebuilt = {}

\* C4 (exhaustive notification): when an external set that reports a change
\* is over, every element that was attached and watching the cell when it
\* started has had its stored content function invoked.
C4_ExhaustiveNotification ==
    (SetOver /\ log # <<>> /\ log[1].flag /\ ~call.force) =>
        \A n \in DOMAIN snap :
            (IsAttached(snap, n) /\ call.cell \in snap[n].decl /\ snap[n].render.k = "fn")
            => \E i \in Invocations : log[i].ev = "rebuild" /\ log[i].el = n

\* C5 (cursor restoration): whenever a builder or content function runs, also
\* after any call it made has returned, the insertion parent of its handle is
\* the element the function builds for; so every node the library created is
\* a child of the element whose function created it, or has been removed.
C5_CursorRestoration ==
    /\ Running("fn") => Cur(Top) = Top.el
    /\ \A n \in DOMAIN nodes :
          nodes[n].by # 0 => nodes[n].parent \in {0, nodes[n].by}

\* C5 witness: five nested content functions have returned and the next
\* sibling at the outer level is in place under the anchor.
C5_Witness ==
    /\ app = "counter"
    /\ \E n \in DOMAIN nodes, m \in DOMAIN nodes :
          /\ nodes[n].tag = "p" /\ nodes[n].parent = relem[1]
          /\ nodes[m].text = "leaf" /\ Cardinality(Ancestors(nodes, m)) >= 8

\* C6 (synchronous completion): a set that has not returned has its forEach
\* on the stack right above its caller, so the caller does not run; every
\* invocation of a stored content lies between its set and the return of
\* that set; of two sets, the later not nested in the earlier, the earlier
\* has returned before the later begins; when the external call has returned
\* every set has.
C6_SynchronousCompletion ==
    /\ \A i \in Sets :
          /\ (Returns(i) = {} /\ call.status = "running") =>
                /\ log[i].depth < Len(stack)
                /\ stack[log[i].depth + 1].kind = "notify"
                /\ stack[log[i].depth + 1].sid = i
          /\ \A k \in Invocations :
                log[k].sid = i => (i < k /\ \A r \in Returns(i) : k < r)
          /\ \A j \in Sets :
                (i < j /\ log[j].depth <= log[i].depth) => \E r \in Returns(i) : r < j
    /\ call.status = "ok" => (stack = <<>> /\ \A i \in Sets : Returns(i) # {})

\* C6 witness: the external set has returned after a rebuild that issued
\* two notifying sets.
C6_Witness ==
    /\ SetReturned
    /\ \E i \in Sets, j \in Sets :
          i < j /\ log[i].depth > 0 /\ log[j].depth = log[i].depth

\* C7 (detached watchers are never notified): every stored content invoked by
\* notifyElements belongs to an element that is in the document then.
C7_DetachedNeverNotified == \A i \in Invocations : log[i].flag

\* C8 (watch with literal content): when a cell watched by an element with
\* literal content and by an element with a content function is changed by
\* an external set, the call returns normally, the literal element keeps its
\* text and the content function has been invoked.
C8_WatchWithLiteralContent ==
    (SetOver /\ ~CallEqual /\ LitWatchers(snap, call.cell) # {}
       /\ FnWatchers(snap, call.cell) # {}) =>
        /\ call.status = "ok"
        /\ \A n \in LitWatchers(snap, call.cell) : TextOf(nodes, n) = TextOf(snap, n)
        /\ \A n \in FnWatchers(snap, call.cell) : n \in Rebuilt

\* the external call and the one before it were set(v, true) on one cell
TwiceForced ==
    /\ SetOver /\ call.force
    /\ prev.kind = "set" /\ prev.force
    /\ prev.cell = call.cell /\ prev.x = call.x

\* C9 (idempotent rebuild): after the second of two set(v, true) calls in a
\* row, every rebuilt element of the document has the subtree structure,
\* attributes and text it had after the first, and so has the document.
C9_IdempotentRebuild ==
    TwiceForced =>
        /\ \A e \in Rebuilt :
              (e \in DOMAIN snap /\ IsAttached(snap, e) /\ IsAttached(nodes, e))
              => Shape(nodes, e) = Shape(snap, e)
        /\ Shape(nodes, BodyNode) = Shape(snap, BodyNode)

\* C9 witness: the second set(v, true) gave a rebuilt element new children.
C9_Witness ==
    /\ TwiceForced
    /\ \E e \in Rebuilt :
          /\ e \in DOMAIN snap /\ IsAttached(snap, e) /\ IsAttached(nodes, e)
          /\ nodes[e].kids # <<>> /\ nodes[e].kids # snap[e].kids

\* C10 (rebuild frame): no step changes the watch marker, the stored content,
\* the attributes or the tag of a node; the step that rebuilds E leaves E
\* under the same parent, removes the children of E and changes no other
\* node.
C10_RebuildFrame ==
    [][\A n \in DOMAIN nodes :
          /\ nodes'[n].hasWatch = nodes[n].hasWatch
          /\ nodes'[n].watching = nodes[n].watching
          /\ nodes'[n].render = nodes[n].render
          /\ nodes'[n].attrs = nodes[n].attrs
          /\ nodes'[n].tag = nodes[n].tag
          /\ RebuildStep(n) =>
                /\ nodes'[n].parent = nodes[n].parent
                /\ nodes'[n].kids = <<>>
                /\ Len(nodes') = Len(nodes)
                /\ \A m \in DOMAIN nodes :
                      IF nodes[m].parent = n
                      THEN nodes'[m] = [nodes[m] EXCEPT !.parent = 0]
                      ELSE m # n => nodes'[m] = nodes[m]]_vars

\* C10 witness: a rebuilt element holds new children and is where it was,
\* with the marker it had.
C10_Witness ==
    /\ SetReturned
    /\ \E e \in Rebuilt :
          /\ e \in DOMAIN snap
          /\ nodes[e].kids # <<>> /\ nodes[e].kids # snap[e].kids
          /\ nodes[e].parent # 0 /\ nodes[e].parent = snap[e].parent
          /\ nodes[nodes[e].parent].kids = snap[nodes[e].parent].kids
          /\ nodes[e].watching = snap[e].watching

\* the rsf call made last had an anchor that matches no element
AnchorMissing ==
    /\ call.kind = "rsf"
    /\ phase > 0
    /\ QuerySelector(Mounts(app)[phase].anchor) = 0

\* C11 (anchor not found): when the anchor selector matches no element, the
\* rsf call raises, no builder runs (no frame is ever on the stack, no log
\* entry, no State used) and the document is exactly the one the call found.
C11_AnchorNotFound ==
    AnchorMissing =>
        /\ call.status = "threw"
        /\ stack = <<>>
        /\ log = <<>>
        /\ nodes = snap
        /\ cells = hist[Len(hist)].cells

\* C11 witness: an rsf call on a missing anchor has thrown while the
\* document holds a tree mounted earlier.
C11_Witness ==
    /\ AnchorMissing
    /\ call.status = "threw"
    /\ nodes[QuerySelector("#app")].kids # <<>>
    /\ nodes = snap

\* the containers created by renderReactive calls
Containers == {n \in DOMAIN nodes : nodes[n].kind = "elem" /\ nodes[n].rstate # 0}

\* C12 (renderReactive watch set): every container created by renderReactive
\* watches exactly the State the call created and returned plus the States
\* options.watch held; no container watches the State created by another
\* renderReactive call; a call given a single State as options.watch creates
\* its container.
C12_ReactiveWatchSet ==
    /\ \A n \in Containers :
          /\ nodes[n].decl = {nodes[n].rstate} \cup nodes[n].given
          /\ \A m \in Containers \ {n} : nodes[m].rstate \notin nodes[n].decl
    /\ (app = "reactive" /\ phase = 2 /\ stack = <<>>) =>
          \E n \in Containers : nodes[n].rstate = 5

\* the entries of the props an element was created from whose key is
\* boolean-whitelisted
BooleanKeys(n) ==
    {i \in 1..Len(nodes[n].kvs) : camelToKebab(nodes[n].kvs[i].key) \in booleanAttributes}

\* the attribute named name is on node n of ns, with any value
HasAttribute(ns, n, name) == \E a \in ns[n].attrs : a.kind = "attr" /\ a.name = name

\* the elements of the document ns created with a boolean-whitelisted
\* property bound to the value of a State
BoundElems(ns) ==
    {n \in DOMAIN ns :
        /\ ns[n].kind = "elem" /\ IsAttached(ns, n)
        /\ \E i \in 1..Len(ns[n].raw) :
              ns[n].raw[i].val.t = "cell" /\ ns[n].raw[i].key \in booleanAttributes}

\* every element of ns bound to a State carries / lacks the bound attribute
AllPresent(ns) ==
    BoundElems(ns) # {} /\
    \A n \in BoundElems(ns) : \A i \in 1..Len(ns[n].raw) :
        ns[n].raw[i].val.t = "cell" => HasAttribute(ns, n, ns[n].raw[i].key)
AllAbsent(ns) ==
    BoundElems(ns) # {} /\
    \A n \in BoundElems(ns) : \A i \in 1..Len(ns[n].raw) :
        ns[n].raw[i].val.t = "cell" => ~HasAttribute(ns, n, ns[n].raw[i].key)

\* C13 (boolean attribute toggling): an element created with a
\* boolean-whitelisted property equal to true carries the bare attribute, one
\* created with false carries no such attribute; whenever no call is running,
\* every element of the document created inside a watched container with such
\* a property bound to a boolean State carries the attribute exactly when the
\* State holds true.
C13_BooleanToggle ==
    /\ \A n \in DOMAIN nodes : \A i \in BooleanKeys(n) :
          LET kv == nodes[n].kvs[i]
          IN  /\ kv.val = Bool(TRUE) =>
                    Attr("attr", camelToKebab(kv.key), "") \in nodes[n].attrs
              /\ kv.val = Bool(FALSE) =>
                    ~HasAttribute(nodes, n, camelToKebab(kv.key))
    /\ (stack = <<>> /\ call.status = "ok") =>
          \A n \in BoundElems(nodes) : \A i \in 1..Len(nodes[n].raw) :
              LET kv == nodes[n].raw[i]
              IN  (kv.val.t = "cell" /\ CellType(app, kv.val.c) = "boolean") =>
                     (HasAttribute(nodes, n, kv.key) <=> cells[kv.val.c].value)

\* C13 witness: the State held false and the attribute was absent; three sets
\* to true, false and true have returned, each after a rebuild, and left the
\* attribute present, absent and present.
C13_Witness ==
    /\ app = "form" /\ stack = <<>> /\ call.kind = "set" /\ Len(hist) = 4
    /\ AllAbsent(hist[2].nodes)
    /\ hist[3].call.x = TRUE /\ AllPresent(hist[3].nodes)
    /\ hist[4].call.x = FALSE /\ AllAbsent(hist[4].nodes)
    /\ call.x = TRUE /\ AllPresent(nodes)
    /\ Cardinality(BoundElems(hist[2].nodes) \cup BoundElems(hist[3].nodes)
                     \cup BoundElems(hist[4].nodes) \cup BoundElems(nodes)) = 4

\* the elements created with a boolean-whitelisted key whose value is
\* neither true nor false
OddBooleans ==
    {n \in DOMAIN nodes : \E i \in BooleanKeys(n) : nodes[n].kvs[i].val.t # "boolean"}

OddStaticKeys ==
    {camelToKebab(kv.key) :
        kv \in UNION {{ins.props[i] : i \in DOMAIN ins.props} :
                        ins \in UNION {{SBody(sin, f)[k] : k \in DOMAIN SBody(sin, f)} :
                                          f \in {"main", "inner", "items"}}}}
      \cap {a \in booleanAttributes :
               \E f \in {"main", "inner", "items"} : \E k \in DOMAIN SBody(sin, f) :
                  \E i \in DOMAIN SBody(sin, f)[k].props :
                     /\ camelToKebab(SBody(sin, f)[k].props[i].key) = a
                     /\ SBody(sin, f)[k].props[i].val.t # "boolean"}

Shorts == {n \in DOMAIN nodes : nodes[n].short # NoShort}

\* C15 (tag shorthand with one content argument): a node created by
\* tagName(content) is an element of that tag; with content a string or a
\* number its text is the string form of content; with content a function
\* its children, until a rebuild removes them, are the nodes the function
\* built.
C15_TagShorthandContent ==
    \A n \in Shorts :
        LET arg == nodes[n].short.arg
        IN  /\ nodes[n].kind = "elem" /\ nodes[n].tag = nodes[n].short.tag
            /\ arg.k \in {"str", "num"} => TextOf(nodes, n) = arg.s
            /\ (arg.k = "fn" /\ IsAttached(nodes, n) /\ stack = <<>>) =>
                  /\ nodes[n].kids # <<>>
                  /\ \A m \in DOMAIN nodes :
                        nodes[m].by = n <=> nodes[m].parent = n

\* the line the README shows for a State with debug: true
Trace(old, new) == <<"State changed from", old, "to", new>>

\* the set calls of the external call that changed the value of a State
\* constructed with debug enabled
DebugSets ==
    {i \in DOMAIN log : /\ log[i].ev = "set" /\ log[i].flag
                         /\ cells[log[i].cell].debug /\ log[i].old # log[i].x}

\* C16 (debug trace): every set that changes the value of a State
\* constructed with debug enabled has written its old-to-new line to the
\* console.
C16_DebugTrace ==
    \A i \in DebugSets :
        \E k \in DOMAIN console : console[k] = Trace(log[i].old, log[i].x)

\* the step is the call update(fn, force) made by external code
UpdateStep == call'.kind = "update" /\ nsets' = nsets + 1

\* C17 (update is set of fn(get())): the step update(fn, force) takes from a
\* state is the step set(fn(get()), force) takes from it: the same stored
\* value, the same notification started over the same watchers (or none),
\* the document untouched; what follows is decided by that state alone.
C17_UpdateIsSet ==
    [][UpdateStep =>
          /\ DoSet(call'.cell, ApplyFn(call'.fn, cells[call'.cell].value),
                   call'.force, <<>>, <<>>)
          /\ nodes' = nodes
          /\ UNCHANGED <<heap, stateIdCounter, relem, rcur, rstack>>]_vars

\* C17 witness: an update with force whose function returned the value it
\* was given has rebuilt a watcher, and so has, before it, an update without
\* force that changed the value.
C17_Witness ==
    /\ call.kind = "update" /\ stack = <<>> /\ call.status = "ok"
    /\ call.force /\ Rebuilt # {}
    /\ call.fn = "same" /\ cells[call.cell].value = call.old
    /\ prev.kind = "update" /\ ~prev.force
    /\ prev.x # prev.old /\ prev.x = ApplyFn(prev.fn, prev.old)
    /\ snap # hist[Len(hist) - 1].nodes

\* the number of rebuilds in progress, one inside the other
RebuildDepth ==
    Cardinality({k \in DOMAIN stack : stack[k].kind = "fn" /\ stack[k].ret = "rebuild"})

\* the external call has been ended by the overflow of the full stack
Overflowed ==
    /\ call.status = "threw" /\ log # <<>>
    /\ log[Len(log)].ev = "overflow" /\ log[Len(log)].depth = MaxDepth

\* C18 (no cycle guard): in the application whose watched content function
\* sets its own State to a changed value, no notifying set ever returns; every
\* such set but the one being entered has a rebuild in progress inside it, so
\* rebuilds nest as deep as sets were made; a call that has started a
\* notification ends only by the overflow of the full stack; until then a
\* next step exists.
C18_NoCycleGuard ==
    app = "cycle" =>
        /\ \A i \in Sets : Returns(i) = {}
        /\ call.status = "running" => RebuildDepth + 1 >= Cardinality(Sets)
        /\ (stack = <<>> /\ Sets # {}) => Overflowed
        /\ stack # <<>> => ENABLED Next

\* C18 witness: the stack is full of rebuilds of the one element nested in
\* each other, each entered by the set of the one before it.
C18_Witness ==
    /\ app = "cycle" /\ Len(stack) = MaxDepth /\ call.kind = "set"
    /\ 2 * RebuildDepth >= MaxDepth - 1
    /\ Cardinality({stack[k].el : k \in {j \in DOMAIN stack : stack[j].kind = "fn"}}) = 1
    /\ Cardinality(Sets) >= RebuildDepth

\* the characters escapeHtml replaces
Special == {"&", "<", ">", "\"", "'"}

\* the pieces of html that are values of the caller written as text
\* content, text() content or attribute value
CallerValues ==
    {i \in DOMAIN shtml : shtml[i].k \in {"text", "attr", "style"}}

\* C19 (static output is escaped): every text content not written with
\* html: true, every text() content and every attribute value in html,
\* values of a style object included, is the value with each of & < > " '
\* replaced by its entity, and holds none of these characters itself.
C19_StaticEscaped ==
    \A i \in CallerValues :
        /\ shtml[i].s = escapeHtml(shtml[i].raw)
        /\ \A j \in DOMAIN shtml[i].s : shtml[i].s[j] \notin Special

\* C20 (static generation determinism): the strings returned by the calls
\* of createStatic made with one builder are identical, and each call
\* starts from an empty html.
C20_StaticDeterminism ==
    /\ \A i \in DOMAIN sout : \A j \in DOMAIN sout : sout[i] = sout[j]
    /\ (sstack = <<>> /\ sout # <<>>) => sout[Len(sout)] = Flatten(shtml)
    /\ (Len(sstack) = 1 /\ STop.pc = 1) => shtml = <<>>

\* C20 witness: two calls have returned the same string, which holds an
\* element with an escaped attribute value, a nested element and a closing
\* tag.
C20_Witness ==
    /\ Len(sout) = 2 /\ sstack = <<>>
    /\ sin.prog = "page" /\ sin.txt = <<"<", "&">>
    /\ sout[1] = sout[2]
    /\ Len(sout[2]) > 30
    /\ \E i \in DOMAIN shtml : shtml[i].k = "attr" /\ shtml[i].s = <<"&lt;", "&amp;">>

\* the functions function f of application a hands to the library as content
Callees(a, f) ==
    {Body(a, f)[i].content.fn :
        i \in {j \in DOMAIN Body(a, f) : Body(a, f)[j].content.k = "fn"}}

RECURSIVE Reach(_, _)
\* the functions reached from those of S
Reach(a, S) ==
    LET T == S \cup UNION {Callees(a, f) : f \in S}
    IN  IF T = S THEN S ELSE Reach(a, T)

\* the builders and content functions of application a
AppFns(a) == Reach(a, {Mounts(a)[i].child : i \in DOMAIN Mounts(a)})

\* the props an instruction of application a passes, as the application wrote
\* them
WrittenProps(a, ins) == IF ins.pobj = 0 THEN ins.props ELSE HeapInit(a)[ins.pobj]

\* the States function f of application a reads: in a text, in a literal
\* content, in a value of props
ReadsOf(a, f) ==
    ({Body(a, f)[i].content.cell : i \in DOMAIN Body(a, f)}
       \cup {Body(a, f)[i].cell : i \in {j \in DOMAIN Body(a, f) : Body(a, f)[j].op = "throw"}}
       \cup UNION {{WrittenProps(a, Body(a, f)[i]).attrs[j].val.c :
                       j \in DOMAIN WrittenProps(a, Body(a, f)[i]).attrs} :
                    i \in DOMAIN Body(a, f)}) \ {0}

\* the States the element made by instruction ins is declared to watch
WatchOf(a, ins) ==
    LET w == WrittenProps(a, ins).watch
    IN  {w.cells[i] : i \in DOMAIN w.cells}
        \cup (IF ins.op = "reactive" THEN {ins.cell} ELSE {})

\* no content function of application a calls set
NoSets(a) ==
    \A f \in AppFns(a) : \A i \in DOMAIN Body(a, f) : Body(a, f)[i].op # "set"

\* no content function of application a throws
NoThrows(a) ==
    \A f \in AppFns(a) : \A i \in DOMAIN Body(a, f) : Body(a, f)[i].op # "throw"

\* every content function of application a reads only States its own
\* element watches, and the builders read none
ReadsOwn(a) ==
    /\ \A i \in DOMAIN Mounts(a) : ReadsOf(a, Mounts(a)[i].child) = {}
    /\ \A f \in AppFns(a) : \A i \in DOMAIN Body(a, f) :
          LET ins == Body(a, f)[i]
          IN  ins.content.k = "fn" => ReadsOf(a, ins.content.fn) \subseteq WatchOf(a, ins)

RECURSIVE View(_, _)
RECURSIVE ViewAll(_, _)
\* what the subtree of n shows: structure, tags, attributes and text
View(ns, n) ==
    [kind |-> ns[n].kind, tag |-> ns[n].tag, text |-> ns[n].text,
     attrs |-> ns[n].attrs, kids |-> ViewAll(ns, ns[n].kids)]
ViewAll(ns, ks) ==
    IF ks = <<>> THEN <<>> ELSE <<View(ns, Head(ks))>> \o ViewAll(ns, Tail(ks))

\* the views of a text node and of an element
TextView(kind, s) == [kind |-> kind, tag |-> "", text |-> s, attrs |-> {}, kids |-> <<>>]
ElemView(tag, kvs, kids) ==
    [kind |-> "elem", tag |-> tag, text |-> "", attrs |-> ApplyProps({}, kvs),
     kids |-> kids]

RECURSIVE Produces(_, _)
RECURSIVE ProducesFrom(_, _, _)
\* the children function f is written to build under the State values cs:
\* one view for each of its calls, in order
Produces(f, cs) == ProducesFrom(f, 1, cs)
ProducesFrom(f, i, cs) ==
    IF i > Len(Body(app, f)) THEN <<>>
    ELSE LET ins == Body(app, f)[i]
             arg == EvalContent(ins.content, cs)
             props == EvalProps(WrittenProps(app, ins), cs)
             content == IF ins.op \in {"tag", "text"} THEN Shorthand(arg).content ELSE arg
             kids == IF content.k = "fn" THEN Produces(content.fn, cs)
                     ELSE IF content.k = "none" \/ content.s = "" THEN <<>>
                     ELSE IF HtmlGiven(props.attrs) THEN <<TextView("markup", content.s)>>
                     ELSE <<TextView("text", content.s)>>
             one == CASE ins.op \in {"text", "tag"} /\ TextIsShorthand(app)
                                /\ (ins.op = "text" \/ ins.tag = "text") ->
                           <<ElemView("text", <<>>, kids)>>
                      [] ins.op = "text" -> <<TextView("text", arg.s)>>
                      [] ins.op = "tag" /\ ins.tag = "text" -> <<TextView("text", arg.s)>>
                      [] ins.op = "reactive" ->
                           <<ElemView(TagOf(props.attrs), WithoutTag(props.attrs), kids)>>
                      [] ins.op \in {"elem", "tag"} ->
                           <<ElemView(ins.tag, props.attrs, kids)>>
                      [] OTHER -> <<>>
         IN  one \o ProducesFrom(f, i + 1, cs)

\* the elements of the document that bear a watch marker and store a
\* content function
LiveWatchers ==
    {n \in DOMAIN nodes : /\ IsWatching(nodes, n) /\ nodes[n].render.k = "fn"
                          /\ IsAttached(nodes, n)}

\* rsf, set or update has returned to external code
Returned == stack = <<>> /\ call.kind # "none" /\ call.status = "ok"

\* C21 (view consistency): in an application whose content functions return,
\* read only States their own element watches and never call set, whenever rsf or
\* set has returned, the children of every watching element of the document
\* show exactly what its content function builds for the values the States
\* hold.
C21_ViewConsistency ==
    (NoSets(app) /\ NoThrows(app) /\ ReadsOwn(app) /\ Returned) =>
        \A e \in LiveWatchers :
            ViewAll(nodes, nodes[e].kids) = Produces(nodes[e].render.fn, cells)


\* the States that have been given a _stateId
Identified == {c \in Cells : cells[c].stateId # Undefined}

\* C22 (identity uniqueness): two distinct States that have an identity have
\* different identity tokens, also when they were registered through
\* different rsf instances; and every element whose stored content a set
\* invokes was declared to watch the State set.
C22_IdentityUnique ==
    /\ \A c \in Identified : \A d \in Identified :
          c # d => cells[c].stateId # cells[d].stateId
    /\ \A i \in Invocations : log[i].cell \in nodes[log[i].el].decl


\* the identity tokens the watch marker of element n holds
WatchedIdentities(n) ==
    IF nodes[n].hasWatch
    THEN {Split(nodes[n].watching)[i] : i \in DOMAIN Split(nodes[n].watching)} \ {<<>>}
    ELSE {}

\* element n stores a callable child-producing function
HasRebuildProcedure(n) == nodes[n].render.k = "fn"

\* C23 (watch-marker invariant): an element has a non-empty declared
\* identity set exactly when it stores a rebuild procedure, a callable
\* child-producing function, whatever the shape of the call that created it.
C23_WatchMarker ==
    \A n \in DOMAIN nodes :
        nodes[n].kind = "elem" => (WatchedIdentities(n) # {} <=> HasRebuildProcedure(n))


\* the elements of ns created with State c in props.watch
Declaring(ns, c) == {n \in DOMAIN ns : ns[n].kind = "elem" /\ c \in ns[n].decl}

\* C24 (identity stability): no step changes the identity a State has; a
\* State gets its identity only in a step that creates an element declared to
\* watch it; and every element declared to watch a State carries the identity
\* of that State, the one it has in every later state, in its marker.
C24_IdentityStable ==
    [][\A c \in Cells :
          /\ cells[c].stateId # Undefined => cells'[c].stateId = cells[c].stateId
          /\ (cells[c].stateId = Undefined /\ cells'[c].stateId # Undefined) =>
                /\ Declaring(nodes, c) = {}
                /\ Declaring(nodes', c) # {}
          /\ \A n \in Declaring(nodes', c) :
                /\ cells'[c].stateId # Undefined
                /\ \E i \in DOMAIN Split(nodes'[n].watching) :
                      Split(nodes'[n].watching)[i] = <<cells'[c].stateId>>]_vars

\* C24 witness: a set has returned after rebuilds that registered, in new
\* elements, a State that had its identity before; four or more elements
\* have been declared to watch it and it has the identity it had.
C24_Witness ==
    /\ SetReturned /\ Rebuilt # {}
    /\ \E c \in Cells :
          /\ hist[2].cells[c].stateId # Undefined
          /\ cells[c].stateId = hist[2].cells[c].stateId
          /\ Cardinality(Declaring(nodes, c)) >= 4
          /\ \E n \in Declaring(nodes, c) : n \notin DOMAIN snap /\ nodes[n].by \in Rebuilt


\* the step is a call of set: by external code, or by a content function
SetStep ==
    \/ call'.kind = "set" /\ nsets' = nsets + 1
    \/ Len(log') = Len(log) + 1 /\ log'[Len(log')].ev = "set"

\* C25 (a non-changing set is a no-op on the value): the step set(x, force)
\* takes, when the comparator returns, leaves every State as it is when it finds
\* the current value and x equal and force is not given; in every other case
\* the State holds x when the step is over, which is before any stored
\* content has been invoked by that set: the document is untouched and the
\* notification is at the start of its list.
C25_NonChangingSet ==
    [][(SetStep /\ call'.status # "threw") =>
          LET e == log'[Len(log')]
              c == e.cell
          IN  IF Compare(CellCompare(app, c), cells[c].value, e.x) /\ ~e.force
              THEN cells' = cells /\ nodes' = nodes
              ELSE /\ cells'[c].value = e.x
                   /\ \A d \in Cells \ {c} : cells'[d] = cells[d]
                   /\ nodes' = nodes
                   /\ \A k \in DOMAIN log' :
                         log'[k].sid = Len(log') => log'[k].ev = "set"
                   /\ stack'[Len(stack')].kind = "notify"
                   /\ stack'[Len(stack')].i = 1]_vars

\* C25 witness: a State with a custom comparator held 0; set(2, true) stored
\* 2; then set(0) without force, which the comparator treats as equal, has
\* returned and the State still holds 2, not 0.
C25_Witness ==
    /\ SetReturned /\ app = "nested"
    /\ CellCompare(app, call.cell) = "parity"
    /\ prev.kind = "set" /\ prev.cell = call.cell
    /\ prev.force /\ prev.old = 0 /\ prev.x = 2
    /\ ~call.force /\ call.x = 0 /\ call.old = 2
    /\ cells[call.cell].value = 2
    /\ Invocations = {}


\* the external call was ended by an exception thrown by a content function
\* during a rebuild; the rebuild it was thrown in
FailedRebuild ==
    /\ log # <<>> /\ log[Len(log)].ev = "throw" /\ log[Len(log)].el # 0
Failed == log[Len(log)]

\* s is t or the beginning of t
IsPrefix(s, t) == Len(s) <= Len(t) /\ s = SubSeq(t, 1, Len(s))

RECURSIVE IsPartial(_, _)
\* the views vs are the views ws cut off at some point: a beginning of ws
\* whose last element may itself be cut off inside
IsPartial(vs, ws) ==
    \/ IsPrefix(vs, ws)
    \/ /\ vs # <<>> /\ Len(vs) <= Len(ws)
       /\ IsPrefix(SubSeq(vs, 1, Len(vs) - 1), ws)
       /\ LET v == vs[Len(vs)]
              w == ws[Len(vs)]
          IN  /\ [v EXCEPT !.kids = <<>>] = [w EXCEPT !.kids = <<>>]
              /\ IsPartial(v.kids, w.kids)

\* C26 as claimed (failing rebuild): when a content function has thrown
\* during a rebuild, the exception has reached the caller of set, the State
\* holds the new value, and the element being rebuilt has no children.
C26_FailedRebuildEmpty ==
    FailedRebuild =>
        /\ stack = <<>> /\ call.status = "threw"
        /\ cells[Failed.cell].value = log[Failed.sid].x
        /\ nodes[Failed.el].kids = <<>>

\* C26 as amended: when a content function has thrown during a rebuild, the
\* exception has reached the caller of set (no frame is left and no later
\* watcher is rebuilt), the State holds the new value, and the element being
\* rebuilt has lost the children it had and holds what the content function
\* had built before it threw: a beginning of what it builds, nothing if it
\* threw first.
C26_FailedRebuildPartial ==
    FailedRebuild =>
        /\ stack = <<>> /\ call.status = "threw"
        /\ cells[Failed.cell].value = log[Failed.sid].x
        /\ \A n \in DOMAIN snap : nodes[n].parent # Failed.el
        /\ IsPartial(ViewAll(nodes, nodes[Failed.el].kids),
                     Produces(nodes[Failed.el].render.fn, cells))
        /\ Len(nodes[Failed.el].kids) < Len(Produces(nodes[Failed.el].render.fn, cells))

\* C26 witness: a set has been ended by a content function that threw after
\* it had built a text and an element in the rebuilt element, which holds
\* them in place of its three children; the element after it, whose content
\* function threw at once in the call before, has no children.
C26_Witness ==
    /\ FailedRebuild /\ call.kind = "set" /\ call.status = "threw"
    /\ prev.kind = "set" /\ prev.status = "threw"
    /\ Len(snap[Failed.el].kids) = 3
    /\ Len(nodes[Failed.el].kids) = 2
    /\ nodes[nodes[Failed.el].kids[2]].kids # <<>>
    /\ cells[call.cell].value = call.x /\ call.x # call.old
    /\ \E e \in LiveWatchers : e # Failed.el /\ nodes[e].kids = <<>>


\* the external call is a set whose comparator throws
ComparatorFailed ==
    /\ call.kind = "set"
    /\ CompareThrows(CellCompare(app, call.cell), call.old, call.x)

\* C27 (failing comparator): when the comparator throws, with and without
\* force, the exception has reached the caller of set, every State holds the
\* value it held, no stored content has been invoked and the document is the
\* one the call found.
C27_FailingComparator ==
    ComparatorFailed =>
        /\ stack = <<>> /\ call.status = "threw"
        /\ cells = hist[Len(hist)].cells
        /\ Invocations = {}
        /\ nodes = snap

\* C27 witness: set(2, true) and then set(2) on a State holding 0 whose
\* watcher is in the document have both thrown and the State holds 0.
C27_Witness ==
    /\ ComparatorFailed /\ ~call.force /\ call.status = "threw"
    /\ prev.kind = "set" /\ prev.cell = call.cell /\ prev.force /\ prev.x = call.x
    /\ prev.status = "threw"
    /\ cells[call.cell].value = 0
    /\ FnWatchers(nodes, call.cell) # {}


\* the elements created during the external call, by a rebuild, with a
\* watch set holding the State whose notification pass the rebuild ran in
NewWatchers ==
    {n \in DOMAIN nodes \ DOMAIN snap :
        /\ nodes[n].kind = "elem" /\ nodes[n].hasWatch
        /\ nodes[n].pass # 0
        /\ log[nodes[n].pass].cell \in nodes[n].decl}

\* C28 (watchers created during a pass are not revisited): an element
\* created, with a watch set holding State c, by a rebuild running inside a
\* notification pass for c has not been rebuilt by that pass; its content
\* function has run once, when the element was created, so once the call has
\* returned the element, if it is in the document and no later pass rebuilt
\* it, shows what the function builds for the new value.
C28_NewWatchersNotRevisited ==
    call.kind \in {"set", "update"} =>
        \A n \in NewWatchers :
            /\ RebuildsOf(n, nodes[n].pass) = {}
            /\ (Returned /\ IsAttached(nodes, n) /\ n \notin Rebuilt
                  /\ nodes[n].render.k = "fn") =>
                  ViewAll(nodes, nodes[n].kids) = Produces(nodes[n].render.fn, cells)

\* C28 witness: a set that changed a State has returned; a rebuild of its
\* pass created an element watching that State, which is in the document,
\* was not rebuilt and shows the new value, while the element it replaced
\* was in the list of the pass.
C28_Witness ==
    /\ SetReturned /\ call.x # call.old
    /\ \E n \in NewWatchers :
          /\ nodes[n].pass = 1 /\ call.cell \in nodes[n].decl
          /\ IsAttached(nodes, n) /\ n \notin Rebuilt
          /\ nodes[n].by \in Rebuilt
          /\ nodes[n].kids # <<>>
          /\ ViewAll(nodes, nodes[n].kids) = Produces(nodes[n].render.fn, cells)
          /\ \E m \in Rebuilt : m \in DOMAIN snap /\ snap[m].parent = nodes[n].by
                                  /\ nodes[m].tag = nodes[n].tag


\* the elements created from the props object p of the application
CreatedFrom(ns, p) == {n \in DOMAIN ns : ns[n].kind = "elem" /\ ns[n].pobj = p}

\* C29 (props are not consumed): no element-producing call takes the watch
\* key out of the props object it was handed; the elements created from one
\* props object holding a watch key all bear the marker of that watch set;
\* and when a set that changed a State of that watch set has returned, each
\* of them that was in the document with a content function has been rebuilt.
C29_PropsNotConsumed ==
    \A p \in DOMAIN heap :
        WatchGiven(HeapInit(app)[p].watch) =>
            /\ WatchGiven(heap[p].watch)
            /\ \A n \in CreatedFrom(nodes, p) :
                  /\ nodes[n].hasWatch
                  /\ nodes[n].decl =
                        {HeapInit(app)[p].watch.cells[i] :
                            i \in DOMAIN HeapInit(app)[p].watch.cells}
            /\ (SetReturned /\ ~CallEqual /\ call.cell \in WatchOf(app, [pobj |-> p, op |-> "elem"])) =>
                  \A n \in CreatedFrom(snap, p) :
                      (IsAttached(snap, n) /\ snap[n].render.k = "fn") => n \in Rebuilt


\* a content function of application a sets a State its own element
\* watches: the rebuilds nest until the engine throws RangeError inside it
SelfSetting(a) ==
    \E f \in AppFns(a) : \E i \in DOMAIN Body(a, f) :
        LET ins == Body(a, f)[i]
        IN  /\ ins.content.k = "fn"
            /\ \E j \in DOMAIN Body(a, ins.content.fn) :
                  /\ Body(a, ins.content.fn)[j].op = "set"
                  /\ Body(a, ins.content.fn)[j].cell \in WatchOf(a, ins)

\* the rsf instances whose render has begun
Mounted == {Mounts(app)[i].inst : i \in 1..phase}

\* C30 (stack balance): in an application none of whose content functions
\* throws, whenever no call is executing every rsf instance has an empty
\* save/restore stack and the insertion parent of its root handle is its
\* anchor; and no step taken while a rebuild is in progress, or beginning or
\* ending one, changes the insertion parent of a root handle, also when the
\* rebuild belongs to a set called by a content function.
C30_StackBalance ==
    /\ []((NoThrows(app) /\ ~SelfSetting(app) /\ stack = <<>>) =>
             \A i \in Mounted : rstack[i] = <<>> /\ rcur[i] = relem[i])
    /\ [][(Rebuilding(stack) # {} \/ Rebuilding(stack') # {}) => rcur' = rcur]_vars

\* C30 witness: a set has returned whose rebuild called set again, and the
\* rebuild of that second set built an element with a content function,
\* saving and restoring the cursor; the stack is empty and the root handle
\* inserts at the anchor, which holds the rebuilt elements.
C30_Witness ==
    /\ SetReturned /\ NoThrows(app) /\ ~SelfSetting(app)
    /\ \E i \in Sets : log[i].depth > 0
    /\ \E n \in DOMAIN nodes \ DOMAIN snap :
          /\ nodes[n].kind = "elem" /\ nodes[n].kids # <<>>
          /\ nodes[n].by \in Rebuilt /\ nodes[n].pass > 1
    /\ rstack[1] = <<>> /\ rcur[1] = relem[1] /\ relem[1] = QuerySelector("#app")
    /\ \A e \in Rebuilt : IsAttached(nodes, e) => nodes[e].parent = relem[1]

\* the watch markers of the elements of the document ns that bear one, in
\* document order
Markers(ns) ==
    LET q == QuerySelectorAll(ns)
    IN  [i \in 1..Len(q) |-> ns[q[i]].watching]

\* external code has made a call after the last rsf call; the document that
\* first such call found: the one the initial render left
ExternalCalls == Len(hist) > Len(Mounts(app))
FirstRender == hist[Len(Mounts(app)) + 1].nodes

\* C31 (no watcher leak): in an application whose content functions do not
\* call set, whenever a set has returned the elements of the document bearing
\* a watch marker are as many as the initial render left, with the same
\* watch sets in the same order (in these applications the watch sets a
\* render declares do not depend on the values); and when a notification
\* begins, every element of its list is in the document: none that a rebuild
\* removed is found.
C31_NoWatcherLeak ==
    /\ (NoSets(app) /\ ExternalCalls /\ Returned) => Markers(nodes) = Markers(FirstRender)
    /\ (Running("notify") /\ Top.i = 1) =>
          \A k \in DOMAIN Top.list : IsAttached(nodes, Top.list[k])

\* the external call is a set or an update of a State
SetCall == call.kind \in {"set", "update"}

\* the elements bearing a watch marker in the document the call found
MarkedAtStart == Len(QuerySelectorAll(snap))

\* C32 (termination): in an application whose content functions do not call
\* set (every content function is a finite sequence of calls, so each
\* terminates), a set or update call that is running comes to an end, and at
\* no moment of it has notifyElements invoked more stored contents than
\* there were elements bearing a watch marker in the document when the call
\* started.
C32_SetTerminates ==
    /\ []((NoSets(app) /\ SetCall) => Cardinality(Invocations) <= MarkedAtStart)
    /\ (NoSets(app) /\ SetCall /\ stack # <<>>) ~> (stack = <<>>)

\* a set that notified has returned in such an application, every element
\* that was marked when it started rebuilt once: the bound is reached
C32_Witness ==
    /\ NoSets(app) /\ SetCall /\ Returned
    /\ MarkedAtStart >= 2
    /\ Cardinality(Invocations) = MarkedAtStart

\* the step is a call of r.text(content) by the function on top: written
\* r.text(...) or, the same call, r['text'](...)
TextStep ==
    /\ \/ AtInstr("text")
       \/ AtInstr("tag") /\ Instr.tag = "text"
    /\ CanCall
    /\ stack' # stack

\* C33 (text always makes a text node): whatever options.addTags the rsf
\* call was given, a call of text(content) adds exactly one node to the
\* document, a text node holding the string form of content, as the last
\* child of the element the cursor is on, and creates no element.
C33_TextAlwaysTextNode ==
    [][TextStep =>
          LET new == Len(nodes) + 1
          IN  /\ Len(nodes') = new
              /\ nodes'[new].kind = "text"
              /\ nodes'[new].text = EvalContent(Instr.content, cells).s
              /\ nodes'[new].parent = Cur(Top)
              /\ nodes'[Cur(Top)].kids = Append(nodes[Cur(Top)].kids, new)
              /\ \A n \in DOMAIN nodes' \ DOMAIN nodes : nodes'[n].kind # "elem"]_vars


====
